---- MODULE Spec2Model ----
(***************************************************************************)
(* Dual-source event pipeline of the trader-analytics service:             *)
(*   - ws_subscriber.rs  run / decode_order_filled  (primary live source)  *)
(*   - alerts.rs         webhook_handler and its helpers (secondary source)*)
(* Both publish LiveTrade records on the trade channel and Alert records   *)
(* on the alert channel; the atomic flag ws_active hands the broadcast      *)
(* duty from one source to the other.                                       *)
(*                                                                         *)
(* Around the pipeline:                                                    *)
(*   - routes.rs / db.rs / auth.rs  the sign-in nonce protocol (SpecAuth)  *)
(*   - alerts.rs  the WebSocket consumers of the two channels and the     *)
(*     ConvergenceDetector (SpecSignals, SpecTrades, SpecClients)          *)
(*   - ws_subscriber.rs  the reconnect delays (SpecBackoff)                *)
(*   - markets.rs  warm_cache and populate_resolved_prices (SpecWarm,      *)
(*     SpecWarmLive with weak fairness, SpecResolve)                       *)
(*   - db.rs  the trader-list tables (SpecLists)                           *)
(*   - routes.rs  simulate_portfolio of the copy-trade backtest            *)
(*     (SpecBacktest)                                                      *)
(*   - ws_subscriber.rs / alerts.rs  the two decoders of a fill           *)
(*     (SpecDecode), the webhook on unreadable timestamps (SpecFailOpen)   *)
(*   - routes.rs  hot_markets (SpecHot) and the leaderboard with its cache *)
(*     (SpecLeaderboard)                                                   *)
(*   - alerts.rs  the detector fed by two traders on two assets            *)
(*     (SpecConverge); the handoff under a fair scheduler (SpecHandoffLive)*)
(*                                                                         *)
(* Option<T> values are sequences: <<>> is None, <<v>> is Some(v).         *)
(* Strings that the code inspects character by character (condition ids)   *)
(* are sequences of one-character strings.                                 *)
(* A raw u128 amount is the pair [whole, frac] of its base-10^6 digits,    *)
(* raw = whole * 10^6 + frac, which is also what format_usdc prints.       *)
(***************************************************************************)
EXTENDS Integers, Sequences, FiniteSets, TLC

\* ------------------------------------------------------------------ bounds
MaxFills == 2        \* on-chain fills 1..MaxFills
MaxReqs == 2         \* webhook requests handled (possibly concurrently)
MaxEvents == 1       \* events per webhook payload
MaxEpochs == 2       \* acknowledged subscriptions of the subscriber
MaxBody == 1         \* records in a catalog API response
MaxVerifies == 2     \* POST /auth/verify requests handled (possibly concurrently)
MaxNonces == 2       \* GET /auth/nonce requests served
MaxTrades == 3       \* LiveTrades sent to one /ws/signals or /ws/trades consumer
MaxFanout == 2       \* LiveTrades sent to the three consumers side by side
MaxAlerts == 2       \* Alerts sent on the alert channel for the WS consumers
TradeCapacity == 1   \* messages the trade channel retains (512 in server.rs)
AlertCapacity == 1   \* messages the alert channel retains (256 in server.rs)
MaxAttempts == 7     \* sleeps recorded since the last acknowledgement
MaxCycles == 2       \* cycles of the cache-warming task
MaxCreates == 2      \* lists created on top of the initial ones
MaxListOps == 4      \* trader-list calls made
MaxRows == 3         \* rows given to simulate_portfolio
MantissaBits == 8    \* significand bits of a float (53 in an f64)
MaxVolume == 2       \* largest volume of a hot-markets row, in millionths
MaxLbRequests == 2   \* GET /leaderboard requests answered
MAX_ASSETS == 1      \* assets a detector keeps after a sweep (max_assets, 500 in alerts.rs)

\* -------------------------------------------------------- program constants
RECONNECT_BASE_DELAY == 2
RECONNECT_MAX_DELAY == 60
LIVE_WINDOW == 300
SIGN_IN_MAX_AGE == 300
SIGN_IN_MAX_SKEW == 60
PREFIX_LEN == 15
CONVERGENCE_WINDOW == 300
CONVERGENCE_THRESHOLD == 2
CONVERGENCE_DEDUP == 60
LAST_ALERT_TTL == 120
DEFAULT_TOP_N == 20
MAX_LISTS_PER_USER == 20
MAX_MEMBERS_PER_LIST == 100

WHALE_THRESHOLD_RAW == [whole |-> 25000, frac |-> 0]

None == <<>>
Some(v) == <<v>>

\* ------------------------------------------------------------ wall clock
\* Instants at which the wall clock is read, and block timestamps the
\* indexer delivers; chosen around the 300 s window on both sides.
ClockValues == {1000, 1300}
TsValues == {700, 1000, 1600}

\* block_timestamp as delivered in transaction_information: a decimal string
\* (ok) or a string that does not parse as i64 (not ok).
TsForms == {[json |-> "string", ok |-> TRUE, v |-> t] : t \in TsValues}
             \cup {[json |-> "string", ok |-> FALSE, v |-> 0]}

\* The other shapes of the JSON: block_timestamp absent, null or a number,
\* or no transaction_information object at all.
TsShapes == {[json |-> j, ok |-> FALSE, v |-> 0] : j \in {"absent", "null", "number", "no_tx_info"}}

\* serde_json::from_value::<TxInfo>(event.get("transaction_information")?):
\* block_timestamp is a String with #[serde(default)], so an absent field
\* becomes "" and a value that is no string is an error.
TxInfoOk(ts) == ts.json \in {"string", "absent"}

Abs(x) == IF x < 0 THEN -x ELSE x

is_event_live_inclusive(ts, clock) ==
  IF ~ts.ok THEN TRUE ELSE Abs(clock - ts.v) <= LIVE_WINDOW

\* alerts.rs is_event_live: fail-open on an unparseable timestamp, else
\* |now - ts| < 300.
is_event_live(ts, clock) ==
  IF ~ts.ok THEN TRUE ELSE Abs(clock - ts.v) < LIVE_WINDOW

\* ------------------------------------------------------------ raw amounts
RawGE_strict(a, b) == a.whole > b.whole \/ (a.whole = b.whole /\ a.frac > b.frac)

\* `>=` on raw 6-decimal amounts held as (whole, frac).
RawGE(a, b) == a.whole > b.whole \/ (a.whole = b.whole /\ a.frac >= b.frac)

\* ------------------------------------------------------------- the chain
Fills == 1..MaxFills

\* The OrderFilled log of fill f as emitted on chain. Token ids are "0"
\* (collateral) or a token; fill ids double as transaction hashes.
OnChainFill(f) ==
  CASE f % 3 = 1 ->
         [makerAssetId |-> "0", takerAssetId |-> "A",
          makerAmountFilled |-> [whole |-> 25000, frac |-> 0],
          takerAmountFilled |-> [whole |-> 50000, frac |-> 0]]
    [] f % 3 = 2 ->
         [makerAssetId |-> "B", takerAssetId |-> "0",
          makerAmountFilled |-> [whole |-> 30000, frac |-> 0],
          takerAmountFilled |-> [whole |-> 24999, frac |-> 999999]]
    [] OTHER ->
         [makerAssetId |-> "A", takerAssetId |-> "B",
          makerAmountFilled |-> [whole |-> 26000, frac |-> 0],
          takerAmountFilled |-> [whole |-> 26000, frac |-> 0]]

\* Side classification shared by parse_trade_data and decode_order_filled:
\* None for a mint (both asset ids non-zero).
Classify(ev) ==
  IF ev.makerAssetId = "0"
  THEN Some([side |-> "buy", asset_id |-> ev.takerAssetId,
             usdc_raw |-> ev.makerAmountFilled, token_raw |-> ev.takerAmountFilled])
  ELSE IF ev.takerAssetId = "0"
  THEN Some([side |-> "sell", asset_id |-> ev.makerAssetId,
             usdc_raw |-> ev.takerAmountFilled, token_raw |-> ev.makerAmountFilled])
  ELSE None

\* ------------------------------------------------------- market catalog
Char0x == <<"0", "x">>
CidA == <<"a">>
CidB == <<"b">>

strip_prefix_0x(s) ==
  IF Len(s) >= 2 /\ SubSeq(s, 1, 2) = Char0x THEN SubSeq(s, 3, Len(s)) ELSE s

\* Cache entries the warm cycle can insert (MarketInfo, keyed by the token's
\* digest): the two tokens of market "Q1", whose condition id the catalog
\* gives with a 0x prefix.
CatalogEntries ==
  {[key |-> "A", question |-> "Q1", outcome |-> "Yes", gamma_token_id |-> "A",
    condition_id |-> Some(Char0x \o CidA), outcome_index |-> 0],
   [key |-> "A2", question |-> "Q1", outcome |-> "No", gamma_token_id |-> "A2",
    condition_id |-> Some(Char0x \o CidA), outcome_index |-> 1]}

\* Records the catalog API can return for /markets?condition_ids=...
GammaRecords ==
  {[conditionId |-> Some(Char0x \o CidA), question |-> Some("Q1"),
    outcomes |-> <<"Yes", "No">>, clobTokenIds |-> <<"A", "A2">>],
   [conditionId |-> Some(CidB), question |-> Some("Q2"),
    outcomes |-> <<"Up", "Down">>, clobTokenIds |-> <<"B1", "B2">>],
   [conditionId |-> Some(Char0x \o CidB), question |-> None,
    outcomes |-> <<>>, clobTokenIds |-> <<>>]}

SeqsUpTo(S, n) == UNION {[1..k -> S] : k \in 0..n}

\* Outcome of the HTTP call: the decoded body, or nothing (timeout, transport
\* error, body that is not a JSON array).
GammaReplies == {[ok |-> FALSE, body |-> <<>>]} \cup
                {[ok |-> TRUE, body |-> b] : b \in SeqsUpTo(GammaRecords, MaxBody)}

VARIABLES
  pc,            \* where WSSubscriber.run is
  ws_active,     \* the shared AtomicBool
  backoff,       \* run's backoff, in seconds
  sub_id,        \* Option: subscription id of the current connection
  epoch,         \* history: acknowledged subscriptions so far
  ws_seen,       \* history: log notifications read by the subscriber
  now,           \* wall clock
  cache,         \* market cache: a set of MarketInfo, one per key
  reqs,          \* webhook request handlers
  hook_seen,     \* history: fills already delivered to the webhook
  handled,       \* history: events the webhook has finished handling
  trades,        \* trade channel: every LiveTrade sent, in send order
  alerts,        \* alert channel: every Alert sent, in send order
  metadata,      \* metadata side-channel: every record pushed
  users,         \* users table: lowercase address -> Option row
  db_lock,       \* user_db mutex: 0 free, else the verify handler holding it
  verifies,      \* auth_verify request handlers
  nonce_seq,     \* history: nonces generated so far
  clients,       \* the WS consumer of each endpoint
  det,           \* the ConvergenceDetector of the /ws/signals consumer
  mono,          \* the monotonic clock (Instant), in seconds
  tx_open,       \* the broadcast senders are alive
  attempts,      \* history: the sleeps of run since the last acknowledgement
  warm,          \* the cache-warming task (warm_cache, populate_resolved_prices)
  cache_lock,    \* market cache RwLock: "free" or "write"
  resolved_prices, \* the resolved_prices table
  lists,         \* trader_lists table: id -> Option row
  members,       \* trader_list_members table: list id -> set of rows
  list_op,       \* history: the last list operation and its result
  bt,            \* simulate_portfolio: its inputs and loop state
  dec,           \* history: the last log decoded by both decoders
  hot,           \* history: the last /markets/hot request and response
  lb             \* leaderboard cache and the last /leaderboard request

authVars == <<users, db_lock, verifies, nonce_seq>>
clientVars == <<clients, det, mono, tx_open>>
warmVars == <<warm, cache_lock, resolved_prices>>
listVars == <<lists, members, list_op>>
apiVars == <<dec, hot, lb>>
extVars == <<attempts, warmVars, listVars, bt, apiVars>>
svcVars == <<authVars, clientVars, extVars>>
restVars == <<pc, ws_active, backoff, sub_id, epoch, ws_seen, cache,
              reqs, hook_seen, handled, metadata>>
pipeVars == <<restVars, trades, alerts>>

vars == <<now, pipeVars, svcVars>>

subVars == <<pc, ws_active, backoff, sub_id, epoch>>
hookVars == <<reqs, hook_seen, handled, metadata>>
chanVars == <<trades, alerts>>

\* ============================================================ wallet auth
\* routes.rs auth_nonce / auth_verify over db.rs users, under the user_db
\* mutex. A nonce is 32 random bytes (db.rs generate_nonce): it is taken to
\* be a value never generated before, numbered in order of generation.
AuthClock == {1000, 1301}
AddressForms == {"0xAB", "0xab"}

\* str::to_lowercase on the addresses of the model.
to_lowercase(s) ==
  CASE s = "0xAB" -> "0xab"
    [] s = "0xCD" -> "0xcd"
    [] OTHER -> s

LowerAddrs == {to_lowercase(a) : a \in AddressForms}

\* issued_at as text: an RFC 3339 instant (ok) or text that does not parse.
IssuedForms == {[ok |-> TRUE, v |-> t] : t \in AuthClock} \cup {[ok |-> FALSE, v |-> 0]}

\* chrono::Utc::now().to_rfc3339()
to_rfc3339(t) == [ok |-> TRUE, v |-> t]

\* An EIP-712 SignIn signature: the wallet that signed and what it signed.
Sign(wallet, nonce, issued_at) == [wallet |-> wallet, nonce |-> nonce, issued_at |-> issued_at]

\* auth.rs recover_eip712_signer: "Ok" or the AuthError it returns.
recover_eip712_signer(address, nonce, issued_at, signature, clock) ==
  IF ~issued_at.ok THEN "InvalidSignature"
  ELSE IF clock - issued_at.v > SIGN_IN_MAX_AGE \/ clock - issued_at.v < -SIGN_IN_MAX_SKEW
       THEN "Expired"
  ELSE IF signature # Sign(to_lowercase(address), nonce, issued_at)
       THEN "InvalidSignature"
  ELSE "Ok"

generate_nonce_stale(seq) == seq

\* db.rs generate_nonce: the next value never generated before.
generate_nonce(seq) == seq + 1

Verifies == 1..MaxVerifies

VerifyBodies(maxNonce) ==
  {[address |-> a, nonce |-> n, issued_at |-> t, signature |-> Sign(w, n, t)] :
     a \in AddressForms, n \in 0..maxNonce, t \in IssuedForms,
     w \in {"0xab", "0xee"}}

\* A handler slot of auth_verify. prior and matched are history: the bodies
\* verified successfully before this request arrived, and whether its
\* (nonce, issued_at) equalled the stored pair when it arrived; raced: a
\* request with the same body was between the signature check and its answer
\* when this one passed its own signature check; checked_at: the clock read by the
\* signature check.
IdleVerify == [pc |-> "idle", body |-> <<>>, valid |-> FALSE, result |-> "",
               prior |-> {}, matched |-> FALSE, raced |-> FALSE, checked_at |-> 0]

\* The (nonce, issued_at) pair stored for an address, if it has a row.
StoredPair(u, addr) ==
  IF u[addr] = None THEN None
  ELSE Some([nonce |-> u[addr][1].nonce, issued_at |-> u[addr][1].issued_at])

BodyPair(b) == Some([nonce |-> b.nonce, issued_at |-> b.issued_at])

PairMatches_nonceOnly(stored, nonce, issued_at) ==
  stored # None /\ stored[1].nonce = nonce

\* db.rs verify_and_rotate_nonce, the match guard on the selected row.
PairMatches(stored, nonce, issued_at) ==
  stored # None /\ stored[1].nonce = nonce /\ stored[1].issued_at = issued_at

LockFree_unguarded(l) == TRUE

\* Mutex::lock on user_db: granted only while no one holds it.
LockFree(l) == l = 0

\* History kept with a user row: issued, the (nonce, issued_at) pairs the
\* nonce requests of the address returned, in order; used, the successful
\* verifies since the last of them.
IssuedBy(u, addr) == IF u[addr] = None THEN <<>> ELSE u[addr][1].issued

get_or_create_user_keep(u, addr, nonce, clock) ==
  [u EXCEPT ![addr] =
     IF u[addr] = None
     THEN Some([nonce |-> nonce, issued_at |-> to_rfc3339(clock),
                created_at |-> to_rfc3339(clock), last_login |-> to_rfc3339(clock),
                issued |-> <<[nonce |-> nonce, issued_at |-> to_rfc3339(clock)]>>,
                used |-> 0])
     ELSE Some([u[addr][1] EXCEPT
                  !.last_login = to_rfc3339(clock),
                  !.issued = Append(@, [nonce |-> nonce, issued_at |-> to_rfc3339(clock)]),
                  !.used = 0])]

\* db.rs get_or_create_user: the upsert of a fresh nonce.
get_or_create_user(u, addr, nonce, clock) ==
  [u EXCEPT ![addr] =
     Some([nonce |-> nonce, issued_at |-> to_rfc3339(clock),
           created_at |-> IF u[addr] = None THEN to_rfc3339(clock) ELSE u[addr][1].created_at,
           last_login |-> to_rfc3339(clock),
           issued |-> Append(IssuedBy(u, addr), [nonce |-> nonce, issued_at |-> to_rfc3339(clock)]),
           used |-> 0])]

\* GET /auth/nonce
AuthNonce ==
  /\ nonce_seq < MaxNonces
  /\ LockFree(db_lock)
  /\ \E a \in AddressForms :
       users' = get_or_create_user(users, to_lowercase(a), generate_nonce(nonce_seq), now)
  /\ nonce_seq' = generate_nonce(nonce_seq)
  /\ UNCHANGED <<db_lock, verifies>>

SuccessfulBodies == {verifies[w].body : w \in {x \in Verifies : verifies[x].result = "Ok"}}

\* POST /auth/verify arrives.
VerifyStart(v) ==
  /\ verifies[v].pc = "idle"
  /\ \E b \in VerifyBodies(nonce_seq) :
       verifies' = [verifies EXCEPT ![v] =
         [IdleVerify EXCEPT !.pc = "sig", !.body = b, !.prior = SuccessfulBodies,
            !.matched = (StoredPair(users, to_lowercase(b.address)) = BodyPair(b))]]
  /\ UNCHANGED <<users, db_lock, nonce_seq>>

\* The signature check, before the lock is taken.
VerifySignature(v) ==
  /\ verifies[v].pc = "sig"
  /\ LET b == verifies[v].body
         r == recover_eip712_signer(b.address, b.nonce, b.issued_at, b.signature, now)
     IN verifies' = [verifies EXCEPT ![v] =
          IF r = "Ok"
          THEN [@ EXCEPT !.pc = "lock", !.checked_at = now,
                         !.raced = \E w \in Verifies \ {v} :
                                     /\ verifies[w].pc \in {"lock", "select", "rotate"}
                                     /\ verifies[w].body = b]
          ELSE [@ EXCEPT !.pc = "done", !.result = r, !.checked_at = now]]
  /\ UNCHANGED <<users, db_lock, nonce_seq>>

VerifyLock(v) ==
  /\ verifies[v].pc = "lock"
  /\ LockFree(db_lock)
  /\ db_lock' = v
  /\ verifies' = [verifies EXCEPT ![v] =
       [@ EXCEPT !.pc = "select"]]
  /\ UNCHANGED <<users, nonce_seq>>

\* db.rs verify_and_rotate_nonce, the SELECT and the comparison.
VerifySelect(v) ==
  /\ verifies[v].pc = "select"
  /\ LET b == verifies[v].body
     IN verifies' = [verifies EXCEPT ![v] =
          [@ EXCEPT !.pc = "rotate",
                    !.valid = PairMatches(users[to_lowercase(b.address)], b.nonce, b.issued_at)]]
  /\ UNCHANGED <<users, db_lock, nonce_seq>>

\* db.rs verify_and_rotate_nonce, the UPDATE; then the JWT or NonceMismatch,
\* and the lock guard is dropped.
VerifyRotate(v) ==
  /\ verifies[v].pc = "rotate"
  /\ LET b == verifies[v].body
         addr == to_lowercase(b.address)
     IN IF verifies[v].valid
        THEN /\ users' = [users EXCEPT ![addr] =
                  IF @ = None THEN @
                  ELSE Some([@[1] EXCEPT !.nonce = generate_nonce(nonce_seq),
                                         !.last_login = to_rfc3339(now),
                                         !.used = @ + 1])]
             /\ nonce_seq' = generate_nonce(nonce_seq)
             /\ verifies' = [verifies EXCEPT ![v] = [@ EXCEPT !.pc = "done", !.result = "Ok"]]
        ELSE /\ verifies' = [verifies EXCEPT ![v] =
                  [@ EXCEPT !.pc = "done", !.result = "NonceMismatch"]]
             /\ UNCHANGED <<users, nonce_seq>>
  /\ db_lock' = 0

\* The wall clock between the requests.
AuthTick ==
  /\ \E t \in AuthClock : t > now /\ now' = t
  /\ UNCHANGED authVars

Reqs == 1..MaxReqs

\* A handler slot before its request arrives. loadStreaming and loadEpoch
\* are history: whether the subscriber was in its message loop, and how many
\* subscriptions had been acknowledged, when the handler loaded ws_active.
IdleReq == [pc |-> "idle", event_name |-> "", events |-> <<>>, ws_active |-> FALSE,
            i |-> 1, is_live |-> FALSE, alert |-> None,
            loadStreaming |-> FALSE, loadEpoch |-> 0]

\* The flag as constructed at startup, before run has acknowledged anything.
InitialFlag == FALSE

\* ========================================================= WS consumers
\* alerts.rs handle_ws (/ws/alerts), handle_trades_ws (/ws/trades) and
\* handle_signal_ws (/ws/signals) over the two broadcast channels of
\* server.rs. A channel is the sequence of everything sent on it; it
\* retains the last `capacity` messages, and a receiver is the count `next`
\* of messages it has passed.

\* ------------------------------------------------------------ token ids
\* A token id in full precision, the same id in scientific notation (as the
\* analytics store prints an f64), and a second token.
TokenX == <<"4","3","6","6","2","4","4","2","9","8","9","6","7","4","1","1","0","7">>
TokenXSci == <<"4",".","3","6","6","2","4","4","2","9","8","9","6","7","4","1","1",
               "e","1","7">>
TokenY == <<"5","1","7","9","7","3","0","4","5","6","6","7","5","0","9","8","5","9">>
AssetIds == {TokenX, TokenY}

\* str::find over 'e' then 'E': the index of the first match, 0 for None.
FindExp(id) ==
  LET es == {i \in 1..Len(id) : id[i] = "e"}
      Es == {i \in 1..Len(id) : id[i] = "E"}
      First(S) == CHOOSE i \in S : \A j \in S : i <= j
  IN IF es # {} THEN First(es) ELSE IF Es # {} THEN First(Es) ELSE 0

\* markets.rs significant_digits: the mantissa without its '.', or the id.
significant_digits(id) ==
  LET e_pos == FindExp(id)
  IN IF e_pos = 0 THEN id
     ELSE SelectSeq(SubSeq(id, 1, e_pos - 1), LAMBDA ch : ch # ".")

cache_key_whole(token_id) == significant_digits(token_id)

\* markets.rs cache_key: the first PREFIX_LEN significant digits.
cache_key(token_id) ==
  LET sig == significant_digits(token_id)
  IN IF Len(sig) >= PREFIX_LEN THEN SubSeq(sig, 1, PREFIX_LEN) ELSE sig

\* str::trim on an item of the comma-separated token_ids parameter.
RECURSIVE trim(_)
trim(s) ==
  IF s = <<>> THEN s
  ELSE IF Head(s) = " " THEN trim(Tail(s))
  ELSE IF s[Len(s)] = " " THEN trim(SubSeq(s, 1, Len(s) - 1))
  ELSE s

\* token_ids parameters of /ws/trades, already split at ','.
TokenIdParams == {<<TokenX>>, <<TokenXSci>>, <<<<" ">> \o TokenY>>, <<TokenXSci, TokenY>>}

Prefixes(items) == {cache_key(trim(items[i])) : i \in 1..Len(items)}

\* ------------------------------------------------------------- publishers
\* What a source puts in a LiveTrade: the trader as the source spells it
\* (ws_subscriber prints the address with its mixed-case checksum, the
\* indexer's payload carries it as the indexer prints it), the side, the
\* token and the dollar amount.
SignalKinds ==
  {[trader |-> "0xAB", side |-> "buy", token |-> TokenX, usdc |-> 1000],
   [trader |-> "0xab", side |-> "buy", token |-> TokenX, usdc |-> 1000],
   [trader |-> "0xcd", side |-> "buy", token |-> TokenX, usdc |-> 2000],
   [trader |-> "0xee", side |-> "sell", token |-> TokenX, usdc |-> 700]}

FanoutKinds ==
  {[trader |-> "0xab", side |-> "buy", token |-> TokenX, usdc |-> 1000],
   [trader |-> "0xee", side |-> "sell", token |-> TokenY, usdc |-> 700]}

LiveTradeOf(id, k) ==
  [tx_hash |-> id, trader |-> k.trader, side |-> k.side, asset_id |-> k.token,
   usdc_amount |-> k.usdc, question |-> "Q", outcome |-> "Yes",
   cache_key |-> cache_key(k.token)]

SendReady_bounded(chan, cap, cl) ==
  \A c \in DOMAIN cl : cl[c].rx => Len(chan) - cl[c].next < cap

\* broadcast::Sender::send: it returns at once whatever the receivers do.
SendReady(chan, cap, cl) == TRUE

\* trade_tx.send by either source.
PublishTrade(kinds, max) ==
  /\ tx_open
  /\ Len(trades) < max
  /\ SendReady(trades, TradeCapacity, [c \in {"trades", "signals"} |-> clients[c]])
  /\ \E k \in kinds : trades' = Append(trades, LiveTradeOf(Len(trades) + 1, k))
  /\ UNCHANGED <<alerts, clients, det, mono, tx_open>>

\* alert_tx.send by either source.
PublishAlert ==
  /\ tx_open
  /\ Len(alerts) < MaxAlerts
  /\ SendReady(alerts, AlertCapacity, [c \in {"alerts"} |-> clients[c]])
  /\ alerts' = Append(alerts, [kind |-> "WhaleTrade", tx_hash |-> Len(alerts) + 1])
  /\ UNCHANGED <<trades, clients, det, mono, tx_open>>

\* The senders are dropped with the application state.
DropSenders ==
  /\ tx_open
  /\ tx_open' = FALSE
  /\ UNCHANGED <<trades, alerts, clients, det, mono>>

\* ------------------------------------------------------------- receivers
ClientIds == {"alerts", "trades", "signals"}

\* seen, lagged and last are history: the messages received with what was
\* done with each, the drop counts reported, and the last event handled.
IdleClient == [pc |-> "none", rx |-> FALSE, next |-> 0, start |-> 0,
               frames |-> <<>>, seen |-> <<>>, lagged |-> <<>>, last |-> "",
               prefixes |-> {}, trader_set |-> {}, params |-> <<>>]

Chan(c) == IF c = "alerts" THEN alerts ELSE trades
Capacity(c) == IF c = "alerts" THEN AlertCapacity ELSE TradeCapacity

\* broadcast::Receiver::recv, when it is ready: the next retained message,
\* Lagged(n) when n messages were overwritten before being read, Closed when
\* nothing is left and the senders are gone.
Recv(chan, cap, next, open) ==
  IF Len(chan) - next > cap
  THEN [kind |-> "Lagged", n |-> Len(chan) - cap - next, next |-> Len(chan) - cap]
  ELSE IF next < Len(chan) THEN [kind |-> "Ok", n |-> 0, next |-> next + 1]
  ELSE IF ~open THEN [kind |-> "Closed", n |-> 0, next |-> next]
  ELSE [kind |-> "Pending", n |-> 0, next |-> next]

\* The loop breaks: the handler returns and its receiver is dropped.
Break(cl, why) == [cl EXCEPT !.pc = "closed", !.rx = FALSE, !.last = why]

Frame(kind, idx, dropped, body) ==
  [kind |-> kind, idx |-> idx, dropped |-> dropped, body |-> body]

\* ------------------------------------------------- ConvergenceDetector
\* recent_trades[a] is the list under key a, <<>> where the map has no such
\* key; tracked is the map's key set.
NewDetector ==
  [recent_trades |-> [a \in AssetIds |-> <<>>], tracked |-> {},
   last_alert |-> [a \in AssetIds |-> None]]

Retain_all(entries, inst, window) == entries

Retain(entries, inst, window) ==
  SelectSeq(entries, LAMBDA e : inst - e.ts < window)

\* record_trade's dedup guard: an alert for the asset less than 60 s ago.
Deduped(last, inst) == last # None /\ inst - last[1] < CONVERGENCE_DEDUP

\* ConvergenceDetector::record_trade: the detector afterwards and the
\* Option<ConvergenceAlert> returned.
record_trade(d, trade, inst) ==
  LET a == trade.asset_id
      pushed == Append(d.recent_trades[a],
                       [trader |-> trade.trader, ts |-> inst, side |-> trade.side,
                        usdc |-> trade.usdc_amount])
      entries == Retain(pushed, inst, CONVERGENCE_WINDOW)
      distinct_traders == {entries[i].trader : i \in 1..Len(entries)}
      count == Cardinality(distinct_traders)
      recent == [d.recent_trades EXCEPT ![a] = entries]
      buy_count == Cardinality({i \in 1..Len(entries) : entries[i].side = "buy"})
      sell_count == Len(entries) - buy_count
      RECURSIVE Sum(_)
      Sum(s) == IF s = <<>> THEN 0 ELSE Head(s).usdc + Sum(Tail(s))
  IN IF count >= CONVERGENCE_THRESHOLD /\ ~Deduped(d.last_alert[a], inst)
     THEN [det |-> [recent_trades |-> recent, tracked |-> d.tracked \cup {a},
                    last_alert |-> [d.last_alert EXCEPT ![a] = Some(inst)]],
           alert |-> Some([asset_id |-> a, traders |-> distinct_traders,
                           trader_count |-> count, window_seconds |-> CONVERGENCE_WINDOW,
                           side |-> IF buy_count >= sell_count THEN "BUY" ELSE "SELL",
                           total_usdc |-> Sum(entries), at |-> inst,
                           entries |-> entries])]
     ELSE [det |-> [recent_trades |-> recent, tracked |-> d.tracked \cup {a},
                    last_alert |-> d.last_alert],
           alert |-> None]

OldestTs_latest(entries, inst) ==
  IF entries = <<>> THEN inst
  ELSE CHOOSE t \in {entries[i].ts : i \in 1..Len(entries)} :
         \A i \in 1..Len(entries) : t >= entries[i].ts

\* entries.iter().map(ts).min().unwrap_or(now)
OldestTs(entries, inst) ==
  IF entries = <<>> THEN inst
  ELSE CHOOSE t \in {entries[i].ts : i \in 1..Len(entries)} :
         \A i \in 1..Len(entries) : t <= entries[i].ts

\* sweep's hard cap: while more than MAX_ASSETS keys are left, remove the
\* key whose oldest entry is oldest. min_by_key takes the first minimum in
\* the map's iteration order, so among equal minima any key can go: the
\* set of maps the loop can end with.
RECURSIVE CapAssets(_, _, _)
CapAssets(recent, tracked, inst) ==
  IF Cardinality(tracked) <= MAX_ASSETS
  THEN {[recent_trades |-> recent, tracked |-> tracked]}
  ELSE UNION {CapAssets([recent EXCEPT ![oldest_key] = <<>>], tracked \ {oldest_key}, inst) :
                oldest_key \in {a \in tracked :
                                  \A b \in tracked :
                                    OldestTs(recent[a], inst) <= OldestTs(recent[b], inst)}}

StaleAlert_early(last, inst) == last # None /\ inst - last[1] >= 30

\* sweep's retain on last_alert: an entry 120 s old or older is removed.
StaleAlert(last, inst) == last # None /\ inst - last[1] >= LAST_ALERT_TTL

\* ConvergenceDetector::sweep: the detectors it can leave.
sweep(d, inst) ==
  LET retained == [a \in AssetIds |-> Retain(d.recent_trades[a], inst, CONVERGENCE_WINDOW)]
      kept == {a \in d.tracked : retained[a] # <<>>}
  IN {[recent_trades |-> c.recent_trades, tracked |-> c.tracked,
       last_alert |->
         [a \in AssetIds |-> IF StaleAlert(d.last_alert[a], inst) THEN None ELSE d.last_alert[a]]] :
        c \in CapAssets(retained, kept, inst)}

\* --------------------------------------------------------------- upgrades
\* GET /ws/alerts
AlertsUpgrade ==
  /\ clients["alerts"].pc = "none"
  /\ clients' = [clients EXCEPT !["alerts"] =
       [@ EXCEPT !.pc = "open", !.rx = TRUE, !.next = Len(alerts), !.start = Len(alerts)]]
  /\ UNCHANGED <<trades, alerts, det, mono, tx_open>>

\* GET /ws/trades?token_ids=...
TradesUpgrade(params) ==
  /\ clients["trades"].pc = "none"
  /\ \E items \in params :
       clients' = [clients EXCEPT !["trades"] =
         [@ EXCEPT !.pc = "open", !.rx = TRUE, !.next = Len(trades), !.start = Len(trades),
                   !.prefixes = Prefixes(items), !.params = items]]
  /\ UNCHANGED <<trades, alerts, det, mono, tx_open>>

\* Trader lists of the token's owner (db.rs get_list_member_addresses:
\* NotFound for a list that is not the owner's), stored in lowercase, and the
\* leaderboard the analytics store returns.
OwnedLists == {"L1", "L0"}
ListMembers(id) == IF id = "L1" THEN {"0xab", "0xcd"} ELSE {}
Leaderboards == {<<>>, <<"0xab", "0xcd", "0xef">>}
TopNValues == {0}

Clamp(n, lo, hi) == IF n < lo THEN lo ELSE IF n > hi THEN hi ELSE n
FirstN(s, n) == {s[i] : i \in 1..(IF n < Len(s) THEN n ELSE Len(s))}
unwrap_or(opt, dflt) == IF opt = None THEN dflt ELSE opt[1]

\* signals_ws_handler's mutual-exclusion check.
BothSelectors(list_id, top_n) == list_id # None /\ top_n # None

\* signals_ws_handler: "upgrade" with the trader set, or the status of the
\* rejection.
signals_ws_handler(token_ok, list_id, top_n, board, query_ok) ==
  IF ~token_ok THEN [status |-> 401, set |-> {}]
  ELSE IF BothSelectors(list_id, top_n) THEN [status |-> 400, set |-> {}]
  ELSE IF list_id # None /\ list_id[1] \notin OwnedLists THEN [status |-> 404, set |-> {}]
  ELSE IF list_id = None /\ ~query_ok THEN [status |-> 500, set |-> {}]
  ELSE LET trader_set ==
             IF list_id # None THEN ListMembers(list_id[1])
             ELSE FirstN(board, Clamp(unwrap_or(top_n, DEFAULT_TOP_N), 1, 50))
       IN IF trader_set = {} THEN [status |-> 400, set |-> {}]
          ELSE [status |-> 101, set |-> trader_set]

\* GET /ws/signals?list_id|top_n&token=
ListIdParams == {None, Some("L1"), Some("L0"), Some("L9")}
TopNParams == {None} \cup {Some(n) : n \in TopNValues}

SignalsUpgrade(tokens, list_ids, top_ns) ==
  /\ clients["signals"].pc = "none"
  /\ \E token_ok \in tokens, list_id \in list_ids, top_n \in top_ns,
        board \in Leaderboards, query_ok \in BOOLEAN :
       LET r == signals_ws_handler(token_ok, list_id, top_n, board, query_ok)
           p == [list_id |-> list_id, top_n |-> top_n, token_ok |-> token_ok]
       IN clients' = [clients EXCEPT !["signals"] =
            IF r.status = 101
            THEN [@ EXCEPT !.pc = "open", !.rx = TRUE, !.next = Len(trades),
                           !.start = Len(trades), !.trader_set = r.set, !.params = p]
            ELSE [@ EXCEPT !.pc = "rejected", !.params = p, !.last = "rejected"]]
  /\ det' = NewDetector
  /\ UNCHANGED <<trades, alerts, mono, tx_open>>

\* ------------------------------------------------------------ the loops
SeenRec(idx, outcome, alert) == [idx |-> idx, outcome |-> outcome, alert |-> alert]

\* handle_ws, the rx.recv() arm.
AlertsRecv ==
  LET c == "alerts"
      cl == clients[c]
      r == Recv(alerts, AlertCapacity, cl.next, tx_open)
  IN /\ cl.pc = "open"
     /\ r.kind # "Pending"
     /\ \E sent \in BOOLEAN :
          clients' = [clients EXCEPT ![c] =
            CASE r.kind = "Ok" ->
                   IF sent
                   THEN [cl EXCEPT !.next = r.next, !.last = "sent",
                                   !.frames = Append(@, Frame("Alert", r.next, 0, alerts[r.next])),
                                   !.seen = Append(@, SeenRec(r.next, "sent", None))]
                   ELSE Break([cl EXCEPT !.next = r.next,
                                         !.seen = Append(@, SeenRec(r.next, "send_failed", None))],
                              "send_failed_alert")
              [] r.kind = "Lagged" ->
                   [cl EXCEPT !.next = r.next, !.last = "lag_logged",
                              !.lagged = Append(@, r.n)]
              [] OTHER -> Break(cl, "channel_closed")]
     /\ UNCHANGED <<trades, alerts, det, mono, tx_open>>

\* handle_trades_ws's filter on the digest carried by the trade.
ForwardTrade(prefixes, trade) == trade.cache_key \in prefixes

\* handle_trades_ws, the rx.recv() arm.
TradesRecv ==
  LET c == "trades"
      cl == clients[c]
      r == Recv(trades, TradeCapacity, cl.next, tx_open)
  IN /\ cl.pc = "open"
     /\ r.kind # "Pending"
     /\ \E sent \in BOOLEAN :
          clients' = [clients EXCEPT ![c] =
            CASE r.kind = "Ok" ->
                   IF ~ForwardTrade(cl.prefixes, trades[r.next])
                   THEN [cl EXCEPT !.next = r.next, !.last = "filtered",
                                   !.seen = Append(@, SeenRec(r.next, "filtered", None))]
                   ELSE IF sent
                   THEN [cl EXCEPT !.next = r.next, !.last = "sent",
                                   !.frames = Append(@, Frame("Trade", r.next, 0, trades[r.next])),
                                   !.seen = Append(@, SeenRec(r.next, "sent", None))]
                   ELSE Break([cl EXCEPT !.next = r.next,
                                         !.seen = Append(@, SeenRec(r.next, "send_failed", None))],
                              "send_failed_trade")
              [] r.kind = "Lagged" ->
                   [cl EXCEPT !.next = r.next, !.last = "lag_logged",
                              !.lagged = Append(@, r.n)]
              [] OTHER -> Break(cl, "channel_closed")]
     /\ UNCHANGED <<trades, alerts, det, mono, tx_open>>

Curated_all(trader_set, trade) == TRUE

\* handle_signal_ws's filter on the lowercased trader.
Curated(trader_set, trade) == to_lowercase(trade.trader) \in trader_set

\* handle_signal_ws, the rx.recv() arm.
SignalsRecv ==
  LET c == "signals"
      cl == clients[c]
      r == Recv(trades, TradeCapacity, cl.next, tx_open)
  IN /\ cl.pc = "open"
     /\ r.kind # "Pending"
     /\ \E sent1 \in BOOLEAN, sent2 \in BOOLEAN :
          CASE r.kind = "Ok" ->
                 LET trade == trades[r.next]
                     rt == record_trade(det, trade, mono)
                     tf == Frame("Trade", r.next, 0, trade)
                 IN IF ~Curated(cl.trader_set, trade)
                    THEN /\ clients' = [clients EXCEPT ![c] =
                              [cl EXCEPT !.next = r.next, !.last = "filtered",
                                         !.seen = Append(@, SeenRec(r.next, "filtered", None))]]
                         /\ det' = det
                    ELSE IF ~sent1
                    THEN /\ clients' = [clients EXCEPT ![c] =
                              Break([cl EXCEPT !.next = r.next,
                                        !.seen = Append(@, SeenRec(r.next, "send_failed", None))],
                                    "send_failed_trade")]
                         /\ det' = det
                    ELSE IF rt.alert = None
                    THEN /\ clients' = [clients EXCEPT ![c] =
                              [cl EXCEPT !.next = r.next, !.last = "sent",
                                         !.frames = Append(@, tf),
                                         !.seen = Append(@, SeenRec(r.next, "sent", None))]]
                         /\ det' = rt.det
                    ELSE IF sent2
                    THEN /\ clients' = [clients EXCEPT ![c] =
                              [cl EXCEPT !.next = r.next, !.last = "sent",
                                         !.frames = @ \o <<tf, Frame("Convergence", r.next, 0, rt.alert[1])>>,
                                         !.seen = Append(@, SeenRec(r.next, "sent", rt.alert))]]
                         /\ det' = rt.det
                    ELSE /\ clients' = [clients EXCEPT ![c] =
                              Break([cl EXCEPT !.next = r.next,
                                        !.frames = Append(@, tf),
                                        !.seen = Append(@, SeenRec(r.next, "send_failed", rt.alert))],
                                    "send_failed_convergence")]
                         /\ det' = rt.det
            [] r.kind = "Lagged" ->
                 /\ clients' = [clients EXCEPT ![c] =
                      [cl EXCEPT !.next = r.next,
                                 !.last = IF sent1 THEN "lag_sent" ELSE "send_failed_lag",
                                 !.lagged = Append(@, r.n),
                                 !.frames = IF sent1 THEN Append(@, Frame("Lag", r.next, r.n, <<>>))
                                            ELSE @]]
                 /\ det' = det
            [] OTHER ->
                 /\ clients' = [clients EXCEPT ![c] = Break(cl, "channel_closed")]
                 /\ det' = det
     /\ UNCHANGED <<trades, alerts, mono, tx_open>>

\* handle_signal_ws, the sweep_interval.tick() arm.
SweepTick ==
  /\ clients["signals"].pc = "open"
  /\ det' \in sweep(det, mono)
  /\ UNCHANGED <<trades, alerts, clients, mono, tx_open>>

SocketEvents == {"socket_close", "socket_end", "socket_error", "socket_other"}

\* The socket.recv() arm of the three loops: a close frame, the end of the
\* stream and a receive error break; any other message is ignored.
SocketRecv(c) ==
  /\ clients[c].pc = "open"
  /\ \E m \in SocketEvents :
       clients' = [clients EXCEPT ![c] =
         IF m = "socket_other" THEN @ ELSE Break(@, m)]
  /\ UNCHANGED <<trades, alerts, det, mono, tx_open>>

\* Instant::now() between the events.
MonoValues == {0, 59, 60, 300}

MonoTick ==
  /\ \E t \in MonoValues : t > mono /\ mono' = t
  /\ UNCHANGED <<trades, alerts, clients, det, tx_open>>

\* ------------------------------------------------------- initial states
AuthInit ==
  /\ users = [a \in LowerAddrs |-> None]
  /\ db_lock = 0
  /\ verifies = [v \in Verifies |-> IdleVerify]
  /\ nonce_seq = 0

ClientInit ==
  /\ clients = [c \in ClientIds |-> IdleClient]
  /\ det = NewDetector
  /\ mono = 0
  /\ tx_open = TRUE

\* The warming task before its first cycle; the cache lock is free and the
\* resolved_prices table is empty.
IdleWarm ==
  [pc |-> "idle", assets |-> {}, target |-> {}, covered |-> {}, offset |-> 0,
   count |-> 0, page |-> <<>>, pages |-> 0, stop |-> "", rows |-> {},
   resolutions |-> {}, queried |-> FALSE, cycle |-> 1]

WarmInit == warm = IdleWarm /\ cache_lock = "free" /\ resolved_prices = {}

\* The list tables as init_user_db creates them: empty.
ListIds == 1..(MAX_LISTS_PER_USER + MaxCreates)
NoListOp == [n |-> 0, op |-> "", owner |-> "", id |-> 0, arg |-> <<>>, result |-> "",
             out |-> {}, created |-> 0]

ListInit ==
  /\ lists = [id \in ListIds |-> None]
  /\ members = [id \in ListIds |-> {}]
  /\ list_op = NoListOp

\* No backtest has been asked for.
IdleBt == [pc |-> "idle", initial_capital |-> [m |-> 0, e |-> 0], rows |-> <<>>,
           i |-> 1, cash_balance |-> [m |-> 0, e |-> 0],
           asset_state |-> <<>>, current_date |-> "",
           points |-> <<>>, last |-> ""]

BtInit == bt = IdleBt

DecInit == dec = <<>>

HotInit == hot = <<>>

\* The leaderboard cache starts empty; no request has been answered.
NoLbRequest == [n |-> 0, params |-> <<>>, key |-> <<>>, at |-> 0, status |-> 0,
                from_cache |-> FALSE, expires |-> 0, queried |-> FALSE, stored |-> FALSE]

LbInit == lb = [cache |-> {}, last |-> NoLbRequest]

ApiInit == DecInit /\ HotInit /\ LbInit

\* The reconnect history is empty until run first sleeps.
AttemptsInit == attempts = <<>>

ExtInit == AttemptsInit /\ WarmInit /\ ListInit /\ BtInit /\ ApiInit

SvcInit == AuthInit /\ ClientInit /\ ExtInit

PipeInit ==
  /\ pc = "startup"
  /\ ws_active = InitialFlag
  /\ backoff = RECONNECT_BASE_DELAY
  /\ sub_id = None
  /\ epoch = 0
  /\ ws_seen = {}
  /\ cache = {}
  /\ reqs = [r \in Reqs |-> IdleReq]
  /\ hook_seen = {}
  /\ handled = {}
  /\ trades = <<>>
  /\ alerts = <<>>
  /\ metadata = <<>>

Init ==
  /\ now = 1000
  /\ PipeInit
  /\ SvcInit

Min(a, b) == IF a < b THEN a ELSE b

\* ---------------------------------------------------------------- records
\* Provenance fields (src, req, idx, removed, gamma) are the history of the
\* send; the remaining fields are those of LiveTrade / Alert.
TradeMsg(src, r, k, f, c, info, removed) ==
  [src |-> src, req |-> r, idx |-> k, removed |-> removed,
   tx_hash |-> f, side |-> c.side,
   asset_id |-> IF info = None THEN c.asset_id ELSE info[1].gamma_token_id,
   amount |-> c.token_raw, usdc_amount |-> c.usdc_raw,
   question |-> IF info = None THEN "" ELSE info[1].question,
   cache_key |-> c.asset_id]

WhaleMsg(src, r, k, f, c, info, removed) ==
  [kind |-> "WhaleTrade", src |-> src, req |-> r, idx |-> k, removed |-> removed,
   tx_hash |-> f, asset_id |-> c.asset_id, usdc_amount |-> c.usdc_raw,
   condition_id |-> <<>>, payout_numerators |-> <<>>,
   question |-> IF info = None THEN None ELSE Some(info[1].question),
   winning_outcome |-> None, outcomes |-> <<>>, token_id |-> None,
   gamma |-> None]

\* HashMap::get on the market cache.
CacheGet(c, key) ==
  IF \E e \in c : e.key = key THEN Some(CHOOSE e \in c : e.key = key) ELSE None

\* ------------------------------------------------------ WSSubscriber.run
\* tokio::time::sleep(10 s) before the first connect.
StartupDone ==
  /\ pc = "startup"
  /\ pc' = "connect"
  /\ UNCHANGED <<ws_active, backoff, sub_id, epoch, ws_seen, now, cache>>
  /\ UNCHANGED <<hookVars, chanVars>>

\* connect_async: on success the backoff is reset; on failure the flag is
\* cleared and run falls through to the sleep.
Connect ==
  /\ pc = "connect"
  /\ \E connected \in BOOLEAN :
       IF connected
       THEN /\ backoff' = RECONNECT_BASE_DELAY
            /\ pc' = "subscribe"
            /\ UNCHANGED ws_active
       ELSE /\ ws_active' = FALSE
            /\ pc' = "sleep"
            /\ UNCHANGED backoff
  /\ UNCHANGED <<sub_id, epoch, ws_seen, now, cache>>
  /\ UNCHANGED <<hookVars, chanVars>>

\* write.send(eth_subscribe): on error clear the flag and sleep.
SubscribeSend ==
  /\ pc = "subscribe"
  /\ \E sent \in BOOLEAN :
       IF sent
       THEN pc' = "await_ack" /\ UNCHANGED ws_active
       ELSE pc' = "sleep" /\ ws_active' = FALSE
  /\ UNCHANGED <<backoff, sub_id, epoch, ws_seen, now, cache>>
  /\ UNCHANGED <<hookVars, chanVars>>

\* What read.next() can yield while waiting for the confirmation: a text
\* frame (json_ok: it deserializes as SubscriptionResponse; result: its
\* "result" string), another frame, the end of the stream, or an error.
FirstResponses ==
  {[frame |-> "text", json_ok |-> TRUE, result |-> Some("sub")],
   [frame |-> "text", json_ok |-> TRUE, result |-> None],
   [frame |-> "text", json_ok |-> FALSE, result |-> None],
   [frame |-> "binary", json_ok |-> FALSE, result |-> None],
   [frame |-> "close", json_ok |-> FALSE, result |-> None],
   [frame |-> "eof", json_ok |-> FALSE, result |-> None],
   [frame |-> "err", json_ok |-> FALSE, result |-> None]}

Acknowledged_anyText(resp) == resp.frame = "text"

\* The match arm `Ok(resp) if resp.result.is_some()`.
Acknowledged(resp) == resp.frame = "text" /\ resp.json_ok /\ resp.result # None

FlagOnAck_unset == ws_active

\* active_flag.store(true) in the acknowledged arm.
FlagOnAck == TRUE

\* Wait for the subscription confirmation.
AwaitAck ==
  /\ pc = "await_ack"
  /\ \E resp \in FirstResponses :
       /\ Acknowledged(resp) => epoch < MaxEpochs
       /\ IF Acknowledged(resp)
          THEN /\ sub_id' = resp.result
               /\ ws_active' = FlagOnAck
               /\ epoch' = epoch + 1
               /\ pc' = "stream"
          ELSE /\ ws_active' = FALSE
               /\ pc' = "sleep"
               /\ UNCHANGED <<sub_id, epoch>>
  /\ UNCHANGED <<backoff, ws_seen, now, cache>>
  /\ UNCHANGED <<hookVars, chanVars>>

\* Log notifications the node can push: the log of fill f, freshly included
\* (removed = FALSE) or withdrawn by a reorg (removed = TRUE); each once.
Notifications == {[fill |-> f, removed |-> b] : f \in Fills, b \in BOOLEAN}

SkipLog_never(n) == FALSE

\* `if log_entry.removed { continue; }`
SkipLog(n) == n.removed

\* decode_order_filled followed by the two sends of the text arm.
WsSends(n, c) ==
  LET cl == Classify(OnChainFill(n.fill)) IN
  IF cl = None
  THEN [trade |-> <<>>, alert |-> <<>>]
  ELSE LET info == CacheGet(c, cl[1].asset_id) IN
       [trade |-> <<TradeMsg("ws", 0, 0, n.fill, cl[1], info, n.removed)>>,
        alert |-> IF RawGE(cl[1].usdc_raw, WHALE_THRESHOLD_RAW)
                  THEN <<WhaleMsg("ws", 0, 0, n.fill, cl[1], info, n.removed)>>
                  ELSE <<>>]

\* Inner loop, text frame carrying a log notification. (Text frames that are
\* no notification, pings, pongs and binary frames change no state.)
WsNotification ==
  /\ pc = "stream"
  /\ \E n \in Notifications \ ws_seen :
       /\ ws_seen' = ws_seen \cup {n}
       /\ IF SkipLog(n)
          THEN UNCHANGED <<trades, alerts>>
          ELSE /\ trades' = trades \o WsSends(n, cache).trade
               /\ alerts' = alerts \o WsSends(n, cache).alert
  /\ UNCHANGED <<subVars, now, cache, hookVars>>

FlagOnDisconnect_stale == ws_active

\* active_flag.store(false) after the inner loop.
FlagOnDisconnect == FALSE

\* Inner loop, close frame / end of stream / socket error: break, then clear
\* the flag; sub_id goes out of scope.
Disconnect ==
  /\ pc = "stream"
  /\ \E how \in {"close", "eof", "err"} :
       /\ ws_active' = FlagOnDisconnect
       /\ sub_id' = None
       /\ pc' = "sleep"
  /\ UNCHANGED <<backoff, epoch, ws_seen, now, cache>>
  /\ UNCHANGED <<hookVars, chanVars>>

\* sleep(backoff) elapsed; backoff = (backoff * 2).min(RECONNECT_MAX_DELAY).
Wake ==
  /\ pc = "sleep"
  /\ backoff' = Min(backoff * 2, RECONNECT_MAX_DELAY)
  /\ pc' = "connect"
  /\ UNCHANGED <<ws_active, sub_id, epoch, ws_seen, now, cache>>
  /\ UNCHANGED <<hookVars, chanVars>>

\* ------------------------------------------------------ webhook payloads
\* ConditionResolution events as the indexer delivers them: on-chain
\* condition ids come without 0x (the second shape carries one all the same);
\* the last shape lacks the conditionId field.
ResolutionShapes ==
  {[wellformed |-> TRUE, cid |-> CidA, nums |-> <<"0", "1">>],
   [wellformed |-> TRUE, cid |-> Char0x \o CidB, nums |-> <<"1", "0">>],
   [wellformed |-> FALSE, cid |-> <<>>, nums |-> <<"1", "0">>]}

FillEvent(f, ts) ==
  [fill |-> f, wellformed |-> TRUE, cid |-> <<>>, nums |-> <<>>, ts |-> ts]

ResolutionEvent(sh, ts) ==
  [fill |-> 0, wellformed |-> sh.wellformed, cid |-> sh.cid, nums |-> sh.nums, ts |-> ts]

\* n.parse::<u64>().unwrap_or(0)
ParseU64(str) == IF str = "1" THEN 1 ELSE 0

\* Index of the first numerator > 0, or 0 when there is none.
FirstPositive(nums) ==
  IF \E k \in 1..Len(nums) : ParseU64(nums[k]) > 0
  THEN CHOOSE k \in 1..Len(nums) :
         /\ ParseU64(nums[k]) > 0
         /\ \A j \in 1..(k - 1) : ParseU64(nums[j]) = 0
  ELSE 0

\* numerators.iter().enumerate().find(n > 0).and_then(|(i, _)| outs.get(i))
Winner(nums, outs) ==
  LET k == FirstPositive(nums) IN
  IF k >= 1 /\ k <= Len(outs) THEN Some(outs[k]) ELSE None

\* The entries of set S as a sequence sorted by outcome_index.
RECURSIVE SortByIndex(_)
SortByIndex(S) ==
  IF S = {} THEN <<>>
  ELSE LET m == CHOOSE e \in S : \A o \in S : e.outcome_index <= o.outcome_index
       IN <<m>> \o SortByIndex(S \ {m})

\* parse_trade_data: the classified fill and its cache entry.
parse_trade_data(ev, c) ==
  IF ~TxInfoOk(ev.ts) \/ ~ev.wellformed THEN None
  ELSE LET cl == Classify(OnChainFill(ev.fill)) IN
       IF cl = None THEN None
       ELSE Some([c |-> cl[1], info |-> CacheGet(c, cl[1].asset_id)])

build_live_trade(r, k, ev, c) ==
  LET td == parse_trade_data(ev, c) IN
  IF td = None THEN None
  ELSE Some(TradeMsg("webhook", r, k, ev.fill, td[1].c, td[1].info, FALSE))

parse_order_filled(r, k, ev, c) ==
  LET td == parse_trade_data(ev, c) IN
  IF td = None THEN None
  ELSE IF ~RawGE(td[1].c.usdc_raw, WHALE_THRESHOLD_RAW) THEN None
  ELSE Some(WhaleMsg("webhook", r, k, ev.fill, td[1].c, td[1].info, FALSE))

parse_condition_resolution(r, k, ev, c) ==
  IF ~TxInfoOk(ev.ts) \/ ~ev.wellformed THEN None
  ELSE
    LET bare_cid == strip_prefix_0x(ev.cid)
        matched == SortByIndex({info \in c :
                      /\ info.condition_id # None
                      /\ strip_prefix_0x(info.condition_id[1]) = bare_cid})
        outcomes == [j \in 1..Len(matched) |-> matched[j].outcome]
    IN Some([kind |-> "MarketResolution", src |-> "webhook", req |-> r, idx |-> k,
             removed |-> FALSE, tx_hash |-> 0, asset_id |-> "", usdc_amount |-> [whole |-> 0, frac |-> 0],
             condition_id |-> ev.cid, payout_numerators |-> ev.nums,
             question |-> IF matched = <<>> THEN None ELSE Some(matched[1].question),
             winning_outcome |-> Winner(ev.nums, outcomes),
             outcomes |-> outcomes,
             token_id |-> IF matched = <<>> THEN None ELSE Some(matched[1].gamma_token_id),
             gamma |-> None])

FirstMatch_unverified(body, bare_id) == IF body = <<>> THEN 0 ELSE 1

\* body.iter().find(|m| conditionId without 0x == bare_id): its index, or 0.
FirstMatch(body, bare_id) ==
  LET hits == {k \in 1..Len(body) :
                 /\ body[k].conditionId # None
                 /\ strip_prefix_0x(body[k].conditionId[1]) = bare_id}
  IN IF hits = {} THEN 0 ELSE CHOOSE k \in hits : \A j \in hits : k <= j

\* fetch_resolution_context: Some((question, outcomes, first token id)).
fetch_resolution_context(reply, condition_id) ==
  IF ~reply.ok THEN None
  ELSE LET k == FirstMatch(reply.body, strip_prefix_0x(condition_id)) IN
       IF k = 0 THEN None
       ELSE IF reply.body[k].question = None THEN None
       ELSE Some([question |-> reply.body[k].question[1],
                  outcomes |-> reply.body[k].outcomes,
                  token_id |-> IF reply.body[k].clobTokenIds = <<>> THEN ""
                               ELSE reply.body[k].clobTokenIds[1]])

\* The enrichment block of webhook_handler, given the fetch result.
Enrich(alert, reply) ==
  LET ctx == fetch_resolution_context(reply, alert.condition_id) IN
  IF ctx = None THEN [alert EXCEPT !.gamma = Some(reply)]
  ELSE [alert EXCEPT !.question = Some(ctx[1].question),
                     !.outcomes = ctx[1].outcomes,
                     !.winning_outcome = Winner(alert.payout_numerators, ctx[1].outcomes),
                     !.token_id = IF ctx[1].token_id # "" THEN Some(ctx[1].token_id) ELSE @,
                     !.gamma = Some(reply)]

\* ------------------------------------------------------- webhook_handler
EventNames == {"OrderFilled", "ConditionResolution", "Transfer"}

LiveTs == [json |-> "string", ok |-> TRUE, v |-> 1000]

\* event_data a payload named `name` can carry: up to MaxEvents events with
\* timestamps among tss; the indexer delivers each fill once.
Payloads(name, tss) ==
  IF name = "OrderFilled"
  THEN {p \in SeqsUpTo({FillEvent(f, ts) : f \in Fills \ hook_seen, ts \in tss}, MaxEvents) :
          \A a, b \in 1..Len(p) : a # b => p[a].fill # p[b].fill}
  ELSE IF name = "ConditionResolution"
  THEN SeqsUpTo({ResolutionEvent(sh, ts) : sh \in ResolutionShapes, ts \in tss}, MaxEvents)
  ELSE {<<ResolutionEvent(sh, LiveTs)>> : sh \in {x \in ResolutionShapes : ~x.wellformed}}

\* Shared-secret check: an empty RINDEXER_WEBHOOK_SECRET disables it.
SecretOk(expected, provided) == expected = "" \/ provided = expected

\* Request r arrives (requests are numbered in arrival order) with a payload
\* named among `names`. After the secret check the handler loads ws_active,
\* once, before its loop; with no event to loop over it returns at once.
Receive(r, names, tss) ==
  /\ reqs[r].pc = "idle"
  /\ \A q \in Reqs : q < r => reqs[q].pc # "idle"
  /\ \E expected \in {"", "k"}, provided \in {"", "k"}, name \in names :
       \E p \in Payloads(name, tss) :
         IF ~SecretOk(expected, provided)
         THEN /\ reqs' = [reqs EXCEPT ![r].pc = "rejected"]
              /\ UNCHANGED hook_seen
         ELSE /\ reqs' = [reqs EXCEPT ![r] =
                   [pc |-> IF p = <<>> THEN "done" ELSE "event",
                    event_name |-> name, events |-> p,
                    ws_active |-> ws_active, i |-> 1, is_live |-> FALSE,
                    alert |-> None, loadStreaming |-> (pc = "stream"),
                    loadEpoch |-> epoch]]
              /\ hook_seen' = hook_seen \cup ({p[k].fill : k \in 1..Len(p)} \ {0})
  /\ UNCHANGED <<subVars, ws_seen, now, cache, handled, metadata, chanVars>>

HookBroadcasts_always(loaded) == TRUE

\* `if !ws_active { trade_tx.send(live_trade) }`
HookBroadcasts(loaded) == ~loaded

\* The alert arm of `match payload.event_name`.
BuildAlert(r, k, name, ev, loaded, c) ==
  IF name = "OrderFilled"
  THEN IF ~loaded THEN parse_order_filled(r, k, ev, c) ELSE None
  ELSE IF name = "ConditionResolution" THEN parse_condition_resolution(r, k, ev, c)
  ELSE None

SendAlert_dropsUnresolved(alert, live) ==
  IF alert # None /\ live /\ (alert[1].kind = "MarketResolution" => alert[1].question # None)
  THEN alert ELSE <<>>

\* `if let Some(alert) = alert { if is_live { alert_tx.send(alert) } }`
SendAlert(alert, live) == IF alert # None /\ live THEN alert ELSE <<>>

\* Move a request past its current event.
Advance(rq) ==
  [rq EXCEPT !.i = @ + 1, !.alert = None,
             !.pc = IF rq.i + 1 > Len(rq.events) THEN "done" ELSE "event"]

\* History record of one handled event: the liveness verdict, the clock it
\* was taken at, and whether the fill's token was in the cache.
HandledRec(r, k, rq, live, clock, hit) ==
  [req |-> r, idx |-> k, live |-> live, clock |-> clock, hit |-> hit]

\* One iteration of the event loop up to the catalog lookup (if any): the
\* liveness test, then under the cache read lock the trade and metadata
\* sends and the construction of the alert.
ProcessEvent(r) ==
  /\ reqs[r].pc = "event"
  /\ LET rq == reqs[r]
         k == rq.i
         ev == rq.events[k]
         live == is_event_live(ev.ts, now)
         lt == IF rq.event_name = "OrderFilled" /\ live
               THEN build_live_trade(r, k, ev, cache) ELSE None
         info == IF lt = None THEN None ELSE CacheGet(cache, lt[1].cache_key)
         alert == BuildAlert(r, k, rq.event_name, ev, rq.ws_active, cache)
         lookup == alert # None /\ alert[1].kind = "MarketResolution"
                   /\ alert[1].question = None
         td == IF rq.event_name = "OrderFilled" THEN parse_trade_data(ev, cache) ELSE None
         hit == td # None /\ td[1].info # None
     IN /\ metadata' = IF info # None
                       THEN Append(metadata, [asset_id |-> lt[1].asset_id, info |-> info[1],
                                              req |-> r, idx |-> k])
                       ELSE metadata
        /\ trades' = IF lt # None /\ HookBroadcasts(rq.ws_active)
                     THEN Append(trades, lt[1]) ELSE trades
        /\ handled' = handled \cup {HandledRec(r, k, rq, live, now, hit)}
        /\ IF lookup
           THEN /\ reqs' = [reqs EXCEPT ![r].pc = "gamma", ![r].is_live = live,
                                        ![r].alert = alert]
                /\ UNCHANGED alerts
           ELSE /\ alerts' = alerts \o SendAlert(alert, live)
                /\ reqs' = [reqs EXCEPT ![r] = Advance([rq EXCEPT !.is_live = live])]
  /\ UNCHANGED <<subVars, ws_seen, now, cache, hook_seen>>

\* The catalog lookup returns (or fails); the alert is enriched when a
\* verified record came back, and sent if the event was live.
GammaReply(r) ==
  /\ reqs[r].pc = "gamma"
  /\ \E reply \in GammaReplies :
       LET rq == reqs[r]
           alert == Some(Enrich(rq.alert[1], reply))
       IN /\ alerts' = alerts \o SendAlert(alert, rq.is_live)
          /\ reqs' = [reqs EXCEPT ![r] = Advance(rq)]
  /\ UNCHANGED <<subVars, ws_seen, now, cache, hook_seen, handled, trades, metadata>>

\* ------------------------------------------------------------ environment
Tick ==
  /\ \E t \in ClockValues : t > now /\ now' = t
  /\ UNCHANGED <<subVars, ws_seen, cache, hookVars, chanVars>>

\* warm_cache inserts one page's batch under the write lock (HashMap::insert
\* replaces an entry with the same key).
WarmPage(batches) ==
  /\ \E batch \in batches :
       /\ batch # {}
       /\ ~(batch \subseteq cache)
       /\ cache' = {e \in cache : \A b \in batch : b.key # e.key} \cup batch
  /\ UNCHANGED <<subVars, ws_seen, now, hookVars, chanVars>>

\* --------------------------------------------------------- specifications
\* The handoff between the two sources: the subscriber's life cycle and the
\* node's notifications, interleaved with webhook requests carrying fills.
Next ==
  \/ StartupDone /\ UNCHANGED svcVars
  \/ Connect /\ UNCHANGED svcVars
  \/ SubscribeSend /\ UNCHANGED svcVars
  \/ AwaitAck /\ UNCHANGED svcVars
  \/ WsNotification /\ UNCHANGED svcVars
  \/ Disconnect /\ UNCHANGED svcVars
  \/ Wake /\ UNCHANGED svcVars
  \/ \E r \in Reqs : Receive(r, {"OrderFilled"}, {LiveTs}) /\ UNCHANGED svcVars
  \/ \E r \in Reqs : ProcessEvent(r) /\ UNCHANGED svcVars
  \/ Tick /\ UNCHANGED svcVars
  \/ WarmPage({CatalogEntries}) /\ UNCHANGED svcVars

Spec == Init /\ [][Next]_vars

\* The handoff with a scheduler that keeps the subscriber task and the
\* handlers running and a node that pushes every log to a subscription that
\* stays open; connections may be lost at any time.
NextHandoff ==
  \/ StartupDone /\ UNCHANGED svcVars
  \/ Connect /\ UNCHANGED svcVars
  \/ SubscribeSend /\ UNCHANGED svcVars
  \/ AwaitAck /\ UNCHANGED svcVars
  \/ WsNotification /\ UNCHANGED svcVars
  \/ Disconnect /\ UNCHANGED svcVars
  \/ Wake /\ UNCHANGED svcVars
  \/ \E r \in Reqs : Receive(r, {"OrderFilled"}, {LiveTs}) /\ UNCHANGED svcVars
  \/ \E r \in Reqs : ProcessEvent(r) /\ UNCHANGED svcVars

HandoffFairness ==
  /\ WF_vars(StartupDone /\ UNCHANGED svcVars)
  /\ WF_vars(Connect /\ UNCHANGED svcVars)
  /\ WF_vars(SubscribeSend /\ UNCHANGED svcVars)
  /\ WF_vars(AwaitAck /\ UNCHANGED svcVars)
  /\ WF_vars(Wake /\ UNCHANGED svcVars)
  /\ \A r \in Reqs : WF_vars(ProcessEvent(r) /\ UNCHANGED svcVars)
  /\ \A n \in Notifications : WF_vars(WsNotification /\ n \in ws_seen' /\ UNCHANGED svcVars)

SpecHandoffLive == Init /\ [][NextHandoff]_vars /\ HandoffFairness

\* The webhook on its own, for payloads of every name and timestamp form,
\* with the subscriber parked in its message loop (ws_active = TRUE) or
\* not yet started (ws_active = FALSE).
InitHook ==
  /\ ws_active \in BOOLEAN
  /\ pc = IF ws_active THEN "stream" ELSE "startup"
  /\ sub_id = IF ws_active THEN Some("sub") ELSE None
  /\ epoch = IF ws_active THEN 1 ELSE 0
  /\ backoff = RECONNECT_BASE_DELAY
  /\ ws_seen = {}
  /\ now = 1000
  /\ cache = {}
  /\ reqs = [r \in Reqs |-> IdleReq]
  /\ hook_seen = {}
  /\ handled = {}
  /\ trades = <<>>
  /\ alerts = <<>>
  /\ metadata = <<>>
  /\ SvcInit

NextHook ==
  \/ \E r \in Reqs : Receive(r, EventNames, TsForms) /\ UNCHANGED svcVars
  \/ \E r \in Reqs : ProcessEvent(r) /\ UNCHANGED svcVars
  \/ \E r \in Reqs : GammaReply(r) /\ UNCHANGED svcVars
  \/ Tick /\ UNCHANGED svcVars
  \/ WarmPage(SUBSET CatalogEntries) /\ UNCHANGED svcVars

SpecHook == InitHook /\ [][NextHook]_vars

\* The webhook fed events whose timestamp cannot be read, next to fresh ones.
NextFailOpen ==
  \/ \E r \in Reqs : Receive(r, {"OrderFilled", "ConditionResolution"},
                              TsShapes \cup {LiveTs, [json |-> "string", ok |-> FALSE, v |-> 0]})
       /\ UNCHANGED svcVars
  \/ \E r \in Reqs : ProcessEvent(r) /\ UNCHANGED svcVars
  \/ \E r \in Reqs : GammaReply(r) /\ UNCHANGED svcVars
  \/ WarmPage({CatalogEntries}) /\ UNCHANGED svcVars

SpecFailOpen == InitHook /\ [][NextFailOpen]_vars

\* The sign-in protocol on its own: nonce requests and verify requests of
\* one wallet, in any interleaving, with the wall clock moving.
InitAuth ==
  /\ now = 1000
  /\ PipeInit
  /\ SvcInit

NextAuth ==
  \/ AuthNonce /\ UNCHANGED <<now, pipeVars, clientVars, extVars>>
  \/ \E v \in Verifies : VerifyStart(v) /\ UNCHANGED <<now, pipeVars, clientVars, extVars>>
  \/ \E v \in Verifies : VerifySignature(v) /\ UNCHANGED <<now, pipeVars, clientVars, extVars>>
  \/ \E v \in Verifies : VerifyLock(v) /\ UNCHANGED <<now, pipeVars, clientVars, extVars>>
  \/ \E v \in Verifies : VerifySelect(v) /\ UNCHANGED <<now, pipeVars, clientVars, extVars>>
  \/ \E v \in Verifies : VerifyRotate(v) /\ UNCHANGED <<now, pipeVars, clientVars, extVars>>
  \/ AuthTick /\ UNCHANGED <<pipeVars, clientVars, extVars>>

SpecAuth == InitAuth /\ [][NextAuth]_vars

\* One /ws/signals connection with its detector, fed by trades of curated
\* and other traders, with the monotonic clock moving.
InitClients ==
  /\ now = 1000
  /\ PipeInit
  /\ SvcInit

NextSignals ==
  \/ SignalsUpgrade(BOOLEAN, ListIdParams, TopNParams) /\ UNCHANGED <<now, restVars, authVars, extVars>>
  \/ PublishTrade(SignalKinds, MaxTrades) /\ UNCHANGED <<now, restVars, authVars, extVars>>
  \/ SignalsRecv /\ UNCHANGED <<now, restVars, authVars, extVars>>
  \/ SweepTick /\ UNCHANGED <<now, restVars, authVars, extVars>>
  \/ SocketRecv("signals") /\ UNCHANGED <<now, restVars, authVars, extVars>>
  \/ MonoTick /\ UNCHANGED <<now, restVars, authVars, extVars>>
  \/ DropSenders /\ UNCHANGED <<now, restVars, authVars, extVars>>

SpecSignals == InitClients /\ [][NextSignals]_vars

\* One /ws/signals connection following list L1, fed by buys and sells of
\* its two members on two assets.
ConvergeKinds ==
  {[trader |-> "0xab", side |-> "buy", token |-> TokenX, usdc |-> 1000],
   [trader |-> "0xcd", side |-> "sell", token |-> TokenX, usdc |-> 2000],
   [trader |-> "0xcd", side |-> "buy", token |-> TokenX, usdc |-> 500],
   [trader |-> "0xcd", side |-> "buy", token |-> TokenY, usdc |-> 700]}

NextConverge ==
  \/ SignalsUpgrade({TRUE}, {Some("L1")}, {None}) /\ UNCHANGED <<now, restVars, authVars, extVars>>
  \/ PublishTrade(ConvergeKinds, MaxTrades) /\ UNCHANGED <<now, restVars, authVars, extVars>>
  \/ SignalsRecv /\ UNCHANGED <<now, restVars, authVars, extVars>>
  \/ SweepTick /\ UNCHANGED <<now, restVars, authVars, extVars>>
  \/ MonoTick /\ UNCHANGED <<now, restVars, authVars, extVars>>

SpecConverge == InitClients /\ [][NextConverge]_vars

\* One /ws/trades connection, for every form of the token_ids parameter.
NextTrades ==
  \/ TradesUpgrade(TokenIdParams) /\ UNCHANGED <<now, restVars, authVars, extVars>>
  \/ PublishTrade(FanoutKinds, MaxTrades) /\ UNCHANGED <<now, restVars, authVars, extVars>>
  \/ TradesRecv /\ UNCHANGED <<now, restVars, authVars, extVars>>
  \/ SocketRecv("trades") /\ UNCHANGED <<now, restVars, authVars, extVars>>
  \/ DropSenders /\ UNCHANGED <<now, restVars, authVars, extVars>>

SpecTrades == InitClients /\ [][NextTrades]_vars

\* The three consumers side by side on the two channels.
NextClients ==
  \/ AlertsUpgrade /\ UNCHANGED <<now, restVars, authVars, extVars>>
  \/ TradesUpgrade({<<TokenX>>}) /\ UNCHANGED <<now, restVars, authVars, extVars>>
  \/ SignalsUpgrade({TRUE}, {Some("L1")}, {None}) /\ UNCHANGED <<now, restVars, authVars, extVars>>
  \/ PublishTrade(FanoutKinds, MaxFanout) /\ UNCHANGED <<now, restVars, authVars, extVars>>
  \/ PublishAlert /\ UNCHANGED <<now, restVars, authVars, extVars>>
  \/ AlertsRecv /\ UNCHANGED <<now, restVars, authVars, extVars>>
  \/ TradesRecv /\ UNCHANGED <<now, restVars, authVars, extVars>>
  \/ SignalsRecv /\ UNCHANGED <<now, restVars, authVars, extVars>>
  \/ \E c \in ClientIds : SocketRecv(c) /\ UNCHANGED <<now, restVars, authVars, extVars>>
  \/ DropSenders /\ UNCHANGED <<now, restVars, authVars, extVars>>

SpecClients == InitClients /\ [][NextClients]_vars

\* ------------------------------------------------------ reconnect history
\* What run is about to sleep, recorded as it reaches a sleep: the step it
\* came from (connect: connection failed; subscribe: the subscribe send
\* failed; await_ack: rejected or no acknowledgement; stream: disconnected
\* after an acknowledged subscription) and the delay it sleeps. The history
\* restarts at each acknowledgement.
Attempted ==
  attempts' = IF pc' = "sleep" /\ pc # "sleep"
              THEN Append(attempts, [why |-> pc, delay |-> backoff'])
              ELSE IF pc' = "stream" THEN <<>> ELSE attempts

\* The subscriber's connection life cycle on its own, against a node that
\* may refuse the connection, the subscribe request or the subscription.
NextBackoff ==
  \/ StartupDone /\ Attempted /\ UNCHANGED <<authVars, clientVars, warmVars, listVars, bt, apiVars>>
  \/ Connect /\ Len(attempts) < MaxAttempts /\ Attempted
       /\ UNCHANGED <<authVars, clientVars, warmVars, listVars, bt, apiVars>>
  \/ SubscribeSend /\ Attempted /\ UNCHANGED <<authVars, clientVars, warmVars, listVars, bt, apiVars>>
  \/ AwaitAck /\ Attempted /\ UNCHANGED <<authVars, clientVars, warmVars, listVars, bt, apiVars>>
  \/ Disconnect /\ Attempted /\ UNCHANGED <<authVars, clientVars, warmVars, listVars, bt, apiVars>>
  \/ Wake /\ Attempted /\ UNCHANGED <<authVars, clientVars, warmVars, listVars, bt, apiVars>>

SpecBackoff == Init /\ [][NextBackoff]_vars

\* ============================================================= cache warming
\* markets.rs warm_cache, run by the task server.rs spawns.

\* A third token: its 16th and later digits round up into the 15th when the
\* id goes through an f64, which the analytics store prints with 15 digits.
TokenR == <<"1","2","3","4","5","6","7","8","9","0","1","2","3","4","5","9","9","6">>
TokenRSci == <<"1",".","2","3","4","5","6","7","8","9","0","1","2","3","4","6",
               "e","1","7">>

\* Token ids with their scientific-notation projection.
TokenForms == {[full |-> TokenX, sci |-> TokenXSci], [full |-> TokenR, sci |-> TokenRSci]}

\* SELECT DISTINCT asset_id FROM trades: legacy rows carry the scientific
\* form, rows written since the UInt256 migration the full-precision one.
AssetRowSets ==
  {{}, {TokenXSci}, {TokenX, TokenR}, {TokenRSci}, {TokenR, TokenRSci}}

\* Markets of the catalog (GammaMarket, its JSON string arrays parsed).
GammaM1 == [question |-> Some("Q1"), condition_id |-> Some(Char0x \o CidA),
            ids |-> <<TokenX, TokenR>>, outcomes |-> <<"Yes", "No">>]
GammaM2 == [question |-> None, condition_id |-> None,
            ids |-> <<TokenY>>, outcomes |-> <<>>]

batch == 100
max_offset == 100000

\* Responses to one page request: a page of `count` events with their
\* markets, or a failed fetch / a body that does not parse.
Pages ==
  {[ok |-> TRUE, count |-> batch, markets |-> <<GammaM1>>],
   [ok |-> TRUE, count |-> batch, markets |-> <<GammaM2>>],
   [ok |-> TRUE, count |-> batch - 1, markets |-> <<GammaM1>>],
   [ok |-> TRUE, count |-> 0, markets |-> <<>>],
   [ok |-> FALSE, count |-> 0, markets |-> <<>>]}

unwrap_or_default(opt) == IF opt = None THEN "" ELSE opt[1]

\* The MarketInfo inserted for the i-th token of a market (outcome_index i - 1).
MarketInfoOf(market, i) ==
  [key |-> cache_key(market.ids[i]),
   question |-> unwrap_or_default(market.question),
   outcome |-> IF i <= Len(market.outcomes) THEN market.outcomes[i] ELSE "",
   gamma_token_id |-> market.ids[i],
   condition_id |-> market.condition_id,
   outcome_index |-> i - 1]

\* The entries of one page whose key is among the target prefixes.
PageBatch(page, target_prefixes) ==
  {e \in UNION {{MarketInfoOf(page.markets[m], i) : i \in 1..Len(page.markets[m].ids)} :
                  m \in 1..Len(page.markets)} : e.key \in target_prefixes}

ReachedMax_late(offset) == offset > max_offset

\* `if offset >= max_offset { break; }`
ReachedMax(offset) == offset >= max_offset

\* The write guard `c` is dropped at the end of the insert block.
Unlock == "free"

\* Step 1: the asset-id query; an error or an empty result ends the cycle.
WarmQuery(rowsets) ==
  /\ warm.pc = "idle"
  /\ \E reply \in {[ok |-> TRUE, rows |-> r] : r \in rowsets} \cup {[ok |-> FALSE, rows |-> {}]} :
       warm' = IF ~reply.ok
               THEN [warm EXCEPT !.pc = "done", !.stop = "query_failed"]
               ELSE IF reply.rows = {}
               THEN [warm EXCEPT !.pc = "done", !.stop = "no_tokens"]
               ELSE [warm EXCEPT !.pc = "fetch", !.assets = reply.rows,
                                 !.target = {cache_key(id) : id \in reply.rows},
                                 !.covered = {}, !.offset = 0]
  /\ UNCHANGED <<cache, cache_lock, resolved_prices>>

\* Top of the loop: request the page at `offset` and parse the response; a
\* failed fetch or parse breaks out of the loop.
WarmFetch(pages) ==
  /\ warm.pc = "fetch"
  /\ \E p \in pages :
       warm' = IF ~p.ok
               THEN [warm EXCEPT !.pc = "done", !.stop = "error", !.pages = @ + 1]
               ELSE [warm EXCEPT !.pc = "lock", !.page = p, !.count = p.count,
                                 !.pages = @ + 1]
  /\ UNCHANGED <<cache, cache_lock, resolved_prices>>

\* cache.write().await
WarmLock ==
  /\ warm.pc = "lock"
  /\ cache_lock = "free"
  /\ cache_lock' = "write"
  /\ warm' = [warm EXCEPT !.pc = "insert"]
  /\ UNCHANGED <<cache, resolved_prices>>

\* The insert block under the write guard, then the three exits of the loop
\* and the advance of `offset`.
WarmInsert ==
  /\ warm.pc = "insert"
  /\ LET b == PageBatch(warm.page, warm.target)
         covered == warm.covered \cup {e.key : e \in b}
         offset == warm.offset + batch
     IN /\ cache' = {e \in cache : \A n \in b : n.key # e.key} \cup b
        /\ cache_lock' = Unlock
        /\ warm' =
             IF Cardinality(covered) >= Cardinality(warm.target)
             THEN [warm EXCEPT !.pc = "done", !.stop = "covered", !.covered = covered]
             ELSE IF warm.count < batch
             THEN [warm EXCEPT !.pc = "done", !.stop = "short_page", !.covered = covered]
             ELSE IF ReachedMax(offset)
             THEN [warm EXCEPT !.pc = "done", !.stop = "max_offset", !.covered = covered,
                               !.offset = offset]
             ELSE [warm EXCEPT !.pc = "fetch", !.covered = covered, !.offset = offset]
  /\ UNCHANGED resolved_prices

\* What a warm cycle leaves alone.
warmFrame == <<now, pc, ws_active, backoff, sub_id, epoch, ws_seen, reqs, hook_seen,
               handled, metadata, trades, alerts, authVars, clientVars, attempts,
               listVars, bt, apiVars>>

\* One warm cycle against a catalog that answers each page request in any
\* of the ways above.
NextWarm ==
  \/ WarmQuery(AssetRowSets) /\ UNCHANGED warmFrame
  \/ WarmFetch(Pages) /\ UNCHANGED warmFrame
  \/ WarmLock /\ UNCHANGED warmFrame
  \/ WarmInsert /\ UNCHANGED warmFrame

SpecWarm == Init /\ [][NextWarm]_vars

\* The same, with the task scheduled whenever it can take a step.
SpecWarmLive == SpecWarm /\ WF_vars(NextWarm)

\* ---------------------------------------------------- resolved prices
\* markets.rs populate_resolved_prices, which the task runs after warm_cache.

\* Rows of condition_resolution (a condition is resolved on chain once): the
\* condition id with or without 0x, the payout vector as decimal strings,
\* the block.
ResolutionRow(cid, nums, block) ==
  [condition_id |-> cid, payout_numerators |-> nums, block_number |-> block]

ResolutionSets ==
  {{},
   {ResolutionRow(CidA, <<"1", "0">>, 7)},
   {ResolutionRow(Char0x \o CidA, <<"1", "2">>, 8)},
   {ResolutionRow(CidA, <<"0", "0">>, 9)},
   {ResolutionRow(CidA, <<"1">>, 9)},
   {ResolutionRow(CidB, <<"0", "1">>, 7), ResolutionRow(CidA, <<"1", "1">>, 8)}}

\* s.parse::<f64>().ok() on a numerator.
ParseF64(str) ==
  CASE str = "0" -> Some(0) [] str = "1" -> Some(1) [] str = "2" -> Some(2) [] OTHER -> None

\* numerators.iter().filter_map(|s| s.parse().ok()).collect()
RECURSIVE ParsedNums(_)
ParsedNums(numerators) ==
  IF numerators = <<>> THEN <<>>
  ELSE ParseF64(Head(numerators)) \o ParsedNums(Tail(numerators))

RECURSIVE Total(_)
Total(nums) == IF nums = <<>> THEN 0 ELSE Head(nums) + Total(Tail(nums))

\* format!("{:.6}", n / total) in millionths: the quotient rounded to six
\* decimals, ties to even.
Round6(n, total) ==
  LET q == (n * 1000000) \div total
      r == (n * 1000000) % total
  IN IF 2 * r > total \/ (2 * r = total /\ q % 2 = 1) THEN q + 1 ELSE q

PriceOf_first(nums, outcome_index) == Round6(nums[1], Total(nums))

\* nums[info.outcome_index] / total
PriceOf(nums, outcome_index) == Round6(nums[outcome_index + 1], Total(nums))

\* resolution_map.get(bare_cid): keys are condition ids without 0x.
ResolutionGet(resolutions, bare_cid) ==
  LET hits == {r \in resolutions : strip_prefix_0x(r.condition_id) = bare_cid}
  IN IF hits = {} THEN None ELSE Some(CHOOSE r \in hits : TRUE)

\* Step 4: the row of one asset id, or None where the loop continues.
ResolvedRow(asset_id, c, resolutions) ==
  LET info == CacheGet(c, cache_key(asset_id)) IN
  IF info = None THEN None
  ELSE IF info[1].condition_id = None THEN None
  ELSE LET res == ResolutionGet(resolutions, strip_prefix_0x(info[1].condition_id[1])) IN
       IF res = None THEN None
       ELSE LET nums == ParsedNums(res[1].payout_numerators) IN
            IF Total(nums) <= 0 \/ info[1].outcome_index >= Len(nums) THEN None
            ELSE Some([asset_id |-> asset_id,
                       resolved_price |-> PriceOf(nums, info[1].outcome_index),
                       condition_id |-> info[1].condition_id[1],
                       block_number |-> res[1].block_number])

\* Steps 1-4: the two queries, then the rows under the cache read lock. A
\* failed query, no resolution or no row ends the call.
PopulateCompute(resolutionSets, assetSets) ==
  /\ warm.pc = "done"
  /\ cache_lock = "free"
  /\ \E q1 \in {[ok |-> TRUE, rows |-> r] : r \in resolutionSets} \cup {[ok |-> FALSE, rows |-> {}]},
        q2 \in {[ok |-> TRUE, rows |-> r] : r \in assetSets} \cup {[ok |-> FALSE, rows |-> {}]} :
       LET rows == {ResolvedRow(a, cache, q1.rows)[1] :
                      a \in {x \in q2.rows : ResolvedRow(x, cache, q1.rows) # None}}
       IN warm' = IF ~q1.ok \/ q1.rows = {} \/ ~q2.ok \/ rows = {}
                  THEN [warm EXCEPT !.pc = "sleep", !.rows = {}, !.resolutions = q1.rows,
                                    !.queried = q1.ok /\ (q1.rows = {} \/ q2.ok)]
                  ELSE [warm EXCEPT !.pc = "truncate", !.rows = rows, !.resolutions = q1.rows,
                                    !.queried = TRUE]
  /\ UNCHANGED <<cache, cache_lock, resolved_prices>>

\* Step 5a: TRUNCATE TABLE; a failure is logged and the call goes on.
PopulateTruncate ==
  /\ warm.pc = "truncate"
  /\ \E ok \in BOOLEAN :
       resolved_prices' = IF ok THEN {} ELSE resolved_prices
  /\ warm' = [warm EXCEPT !.pc = "write"]
  /\ UNCHANGED <<cache, cache_lock>>

\* Step 5b: the batch insert. If the inserter cannot be created, a write
\* fails or the flush fails, the call returns; the rows already sent may or
\* may not have reached the table.
PopulateInsert ==
  /\ warm.pc = "write"
  /\ \E ok \in BOOLEAN :
       \E landed \in IF ok THEN {warm.rows} ELSE SUBSET warm.rows :
         resolved_prices' = resolved_prices \cup
                              {[row |-> r, cycle |-> warm.cycle] : r \in landed}
  /\ warm' = [warm EXCEPT !.pc = "sleep"]
  /\ UNCHANGED <<cache, cache_lock>>

\* interval.tick(): ten minutes later the task warms again.
IntervalTick ==
  /\ warm.pc = "sleep"
  /\ warm.cycle < MaxCycles
  /\ warm' = [IdleWarm EXCEPT !.cycle = warm.cycle + 1]
  /\ UNCHANGED <<cache, cache_lock, resolved_prices>>

\* The warming task through its cycles, against a catalog that answers with
\* one short page.
NextResolve ==
  \/ WarmQuery({{TokenX, TokenR}, {TokenXSci}}) /\ UNCHANGED warmFrame
  \/ WarmFetch({p \in Pages : p.count < batch}) /\ UNCHANGED warmFrame
  \/ WarmLock /\ UNCHANGED warmFrame
  \/ WarmInsert /\ UNCHANGED warmFrame
  \/ PopulateCompute(ResolutionSets, {{TokenX, TokenR}, {TokenXSci, TokenR}}) /\ UNCHANGED warmFrame
  \/ PopulateTruncate /\ UNCHANGED warmFrame
  \/ PopulateInsert /\ UNCHANGED warmFrame
  \/ IntervalTick /\ UNCHANGED warmFrame

SpecResolve == Init /\ [][NextResolve]_vars

\* ============================================================== trader lists
\* db.rs trader-list functions. Each takes the one rusqlite Connection, which
\* is behind the user_db mutex, so each call is one step. Addresses are
\* numbered: k stands for the k-th address string.
ListOwners == {"0xab", "0xcd"}

ListRow(owner, name, clock) ==
  [owner |-> owner, name |-> name, created_at |-> to_rfc3339(clock),
   updated_at |-> to_rfc3339(clock)]

MemberRow(address, label, clock) ==
  [address |-> address, label |-> label, added_at |-> to_rfc3339(clock)]

\* SELECT COUNT(*) FROM trader_lists WHERE owner = ?1
CountLists(L, owner) == Cardinality({id \in ListIds : L[id] # None /\ L[id][1].owner = owner})

\* UNIQUE(owner, name), for a row other than `except`.
NameTaken(L, owner, name, except) ==
  \E id \in ListIds \ {except} : L[id] # None /\ L[id][1].owner = owner /\ L[id][1].name = name

Owned_anyone(L, id, owner) == id \in ListIds /\ L[id] # None

\* ... WHERE id = ?1 AND owner = ?2
Owned(L, id, owner) == id \in ListIds /\ L[id] # None /\ L[id][1].owner = owner

AtListLimit_late(count) == count > MAX_LISTS_PER_USER

\* `if count >= MAX_LISTS_PER_USER`
AtListLimit(count) == count >= MAX_LISTS_PER_USER

\* db.rs create_trader_list; id is the fresh uuid.
create_trader_list(L, owner, name, id, clock) ==
  IF AtListLimit(CountLists(L, owner))
  THEN [lists |-> L, result |-> "LimitExceeded"]
  ELSE IF NameTaken(L, owner, name, 0)
  THEN [lists |-> L, result |-> "DuplicateName"]
  ELSE [lists |-> [L EXCEPT ![id] = Some(ListRow(owner, name, clock))], result |-> "Ok"]

\* db.rs get_trader_list: the list's row and its members.
get_trader_list(L, M, id, owner) ==
  IF ~Owned(L, id, owner) THEN [result |-> "NotFound", out |-> {}]
  ELSE [result |-> "Ok", out |-> {L[id][1]} \cup M[id]]

\* db.rs rename_trader_list
rename_trader_list(L, id, owner, new_name, clock) ==
  IF ~Owned(L, id, owner) THEN [lists |-> L, result |-> "NotFound"]
  ELSE IF NameTaken(L, owner, new_name, id) THEN [lists |-> L, result |-> "DuplicateName"]
  ELSE [lists |-> [L EXCEPT ![id] = Some([L[id][1] EXCEPT !.name = new_name,
                                                          !.updated_at = to_rfc3339(clock)])],
        result |-> "Ok"]

\* db.rs delete_trader_list; the members go with the list (ON DELETE CASCADE).
delete_trader_list(L, M, id, owner) ==
  IF ~Owned(L, id, owner) THEN [lists |-> L, members |-> M, result |-> "NotFound"]
  ELSE [lists |-> [L EXCEPT ![id] = None], members |-> [M EXCEPT ![id] = {}],
        result |-> "Ok"]

\* INSERT OR IGNORE of each (address, label) in turn: PRIMARY KEY (list_id,
\* address) keeps the row already there.
RECURSIVE InsertOrIgnore(_, _, _)
InsertOrIgnore(rows, addresses, clock) ==
  IF addresses = <<>> THEN rows
  ELSE LET a == Head(addresses)
           next == IF \E r \in rows : r.address = a.address THEN rows
                   ELSE rows \cup {MemberRow(a.address, a.label, clock)}
       IN InsertOrIgnore(next, Tail(addresses), clock)

\* db.rs add_list_members
add_list_members(L, M, list_id, owner, addresses, clock) ==
  IF ~Owned(L, list_id, owner) THEN [lists |-> L, members |-> M, result |-> "NotFound"]
  ELSE IF Cardinality(M[list_id]) + Len(addresses) > MAX_MEMBERS_PER_LIST
  THEN [lists |-> L, members |-> M, result |-> "LimitExceeded"]
  ELSE [lists |-> [L EXCEPT ![list_id] = Some([L[list_id][1] EXCEPT
                                                 !.updated_at = to_rfc3339(clock)])],
        members |-> [M EXCEPT ![list_id] = InsertOrIgnore(M[list_id], addresses, clock)],
        result |-> "Ok"]

\* db.rs remove_list_members
remove_list_members(L, M, list_id, owner, addresses, clock) ==
  IF ~Owned(L, list_id, owner) THEN [lists |-> L, members |-> M, result |-> "NotFound"]
  ELSE [lists |-> [L EXCEPT ![list_id] = Some([L[list_id][1] EXCEPT
                                                 !.updated_at = to_rfc3339(clock)])],
        members |-> [M EXCEPT ![list_id] =
                       {r \in M[list_id] : \A k \in 1..Len(addresses) : addresses[k] # r.address}],
        result |-> "Ok"]

\* db.rs get_list_member_addresses
get_list_member_addresses(L, M, list_id, owner) ==
  IF ~Owned(L, list_id, owner) THEN [result |-> "NotFound", out |-> {}]
  ELSE [result |-> "Ok", out |-> {r.address : r \in M[list_id]}]

\* --- the calls
ListOp(op, owner, id, arg, result, out) ==
  [n |-> list_op.n + 1, op |-> op, owner |-> owner, id |-> id, arg |-> arg,
   result |-> result, out |-> out, created |-> list_op.created]

\* The uuid of the next list: an id no list ever had.
FreshId == MAX_LISTS_PER_USER + list_op.created

CreateList(names) ==
  /\ list_op.n < MaxListOps /\ list_op.created < MaxCreates
  /\ \E owner \in ListOwners, name \in names :
       LET r == create_trader_list(lists, owner, name, FreshId, now)
       IN /\ lists' = r.lists
          /\ list_op' = [ListOp("create", owner, FreshId, <<name>>, r.result, {}) EXCEPT
                           !.created = IF r.result = "Ok" THEN @ + 1 ELSE @]
  /\ UNCHANGED members

GetList(ids) ==
  /\ list_op.n < MaxListOps
  /\ \E owner \in ListOwners, id \in ids :
       LET r == get_trader_list(lists, members, id, owner)
       IN list_op' = ListOp("get", owner, id, <<>>, r.result, r.out)
  /\ UNCHANGED <<lists, members>>

RenameList(ids, names) ==
  /\ list_op.n < MaxListOps
  /\ \E owner \in ListOwners, id \in ids, name \in names :
       LET r == rename_trader_list(lists, id, owner, name, now)
       IN /\ lists' = r.lists
          /\ list_op' = ListOp("rename", owner, id, <<name>>, r.result, {})
  /\ UNCHANGED members

DeleteList(ids) ==
  /\ list_op.n < MaxListOps
  /\ \E owner \in ListOwners, id \in ids :
       LET r == delete_trader_list(lists, members, id, owner)
       IN /\ lists' = r.lists
          /\ members' = r.members
          /\ list_op' = ListOp("delete", owner, id, <<>>, r.result, {})

AddMembers(ids, batches) ==
  /\ list_op.n < MaxListOps
  /\ \E owner \in ListOwners, id \in ids, b \in batches :
       LET r == add_list_members(lists, members, id, owner, b, now)
       IN /\ lists' = r.lists
          /\ members' = r.members
          /\ list_op' = ListOp("add", owner, id, b, r.result, {})

RemoveMembers(ids, batches) ==
  /\ list_op.n < MaxListOps
  /\ \E owner \in ListOwners, id \in ids, b \in batches :
       LET r == remove_list_members(lists, members, id, owner, b, now)
       IN /\ lists' = r.lists
          /\ members' = r.members
          /\ list_op' = ListOp("remove", owner, id, b, r.result, {})

GetMemberAddresses(ids) ==
  /\ list_op.n < MaxListOps
  /\ \E owner \in ListOwners, id \in ids :
       LET r == get_list_member_addresses(lists, members, id, owner)
       IN list_op' = ListOp("addresses", owner, id, <<>>, r.result, r.out)
  /\ UNCHANGED <<lists, members>>

\* Tables of a user one list and two members short of the limits: "0xab"
\* owns lists 1..19, named by their number, and list 1 holds addresses 1..98.
InitLists ==
  /\ now = 1000
  /\ PipeInit /\ AuthInit /\ ClientInit /\ AttemptsInit /\ WarmInit /\ BtInit /\ ApiInit
  /\ lists = [id \in ListIds |->
                IF id < MAX_LISTS_PER_USER THEN Some(ListRow("0xab", id, 900)) ELSE None]
  /\ members = [id \in ListIds |->
                  IF id = 1
                  THEN {MemberRow(a, None, 900) : a \in 1..(MAX_MEMBERS_PER_LIST - 2)}
                  ELSE {}]
  /\ list_op = NoListOp

\* Batches of (address, label) for add_list_members, and of addresses for
\* remove_list_members.
Entry(a) == [address |-> a, label |-> Some("w")]
AddBatches == {<<Entry(99)>>, <<Entry(99), Entry(100)>>, <<Entry(98), Entry(99)>>, <<Entry(101)>>}
RemoveBatches == {<<1>>, <<99>>}

listFrame == <<pipeVars, authVars, clientVars, attempts, warmVars, bt, apiVars>>

NextLists ==
  \/ CreateList({1, 30, 31}) /\ UNCHANGED <<now, listFrame>>
  \/ GetList({1, 2}) /\ UNCHANGED <<now, listFrame>>
  \/ RenameList({2}, {1, 40}) /\ UNCHANGED <<now, listFrame>>
  \/ DeleteList({2, 20}) /\ UNCHANGED <<now, listFrame>>
  \/ AddMembers({1}, AddBatches) /\ UNCHANGED <<now, listFrame>>
  \/ RemoveMembers({1}, RemoveBatches) /\ UNCHANGED <<now, listFrame>>
  \/ GetMemberAddresses({1, 2}) /\ UNCHANGED <<now, listFrame>>
  \/ AuthTick /\ UNCHANGED <<pipeVars, clientVars, extVars>>

SpecLists == InitLists /\ [][NextLists]_vars

\* ================================================================= backtest
\* routes.rs simulate_portfolio. Its numbers are f64; here a number is a
\* binary float m * 2^e with a significand of MantissaBits bits, and every
\* operation rounds its exact result to the nearest such number, ties to even,
\* as IEEE 754 arithmetic does with 53 bits.
F(m, e) == [m |-> m, e |-> e]
FZero == F(0, 0)

\* The float nearest to (n / d) * 2^e, for d > 0.
RECURSIVE Rnd(_, _, _)
Rnd(n, d, e) ==
  IF n = 0 THEN FZero
  ELSE LET a == Abs(n) IN
       IF a >= 2^MantissaBits * d THEN Rnd(n, 2 * d, e + 1)
       ELSE IF a < 2^(MantissaBits - 1) * d THEN Rnd(2 * n, d, e - 1)
       ELSE LET q == a \div d
                r == a % d
                m1 == IF 2 * r > d \/ (2 * r = d /\ q % 2 = 1) THEN q + 1 ELSE q
                s == IF n < 0 THEN -1 ELSE 1
            IN IF m1 = 2^MantissaBits THEN F(s * 2^(MantissaBits - 1), e + 1)
               ELSE F(s * m1, e)

\* str::parse::<f64> of a decimal string holding the integer v.
parse_f64(v) == Rnd(v, 1, 0)

\* Both significands at the smaller exponent.
Aligned(a, b) ==
  LET e == IF a.e < b.e THEN a.e ELSE b.e
  IN [x |-> a.m * 2^(a.e - e), y |-> b.m * 2^(b.e - e), e |-> e]

FAdd(a, b) == LET al == Aligned(a, b) IN Rnd(al.x + al.y, 1, al.e)
FNeg(a) == F(-a.m, a.e)
FMul(a, b) == Rnd(a.m * b.m, 1, a.e + b.e)
FDiv(a, b) == IF b.m < 0 THEN Rnd(-a.m, -b.m, a.e - b.e) ELSE Rnd(a.m, b.m, a.e - b.e)
FLt(a, b) == LET al == Aligned(a, b) IN al.x < al.y
FMax(a, b) == IF FLt(a, b) THEN b ELSE a

\* Rows of pnl_daily for the copied trader, in date order: a date, an asset,
\* and the token delta, cash flow and last price as decimal strings.
BtAssets == {"A", "B"}
BtRow(date, asset, tokens, cash, price) ==
  [date |-> date, asset_id |-> asset, net_token_delta |-> tokens,
   cash_flow_delta |-> cash, last_price |-> price]
BtRows ==
  {BtRow("d1", "A", 300, -150, 1), BtRow("d1", "A", 151, -151, 1),
   BtRow("d2", "B", 20, -10, 1), BtRow("d2", "A", -10, 5, 1)}

\* (tokens, cash, price) of an asset; HashMap::entry(..).or_insert((0, 0, 0)).
Position(tokens, cash, price) == [tokens |-> tokens, cash |-> cash, price |-> price]

\* asset_state.values().map(|(tokens, _, price)| tokens * price).sum()
PositionsValue(st) ==
  LET v(a) == FMul(st[a].tokens, st[a].price)
  IN FAdd(FAdd(FZero, v("A")), v("B"))

\* trader_scales.get(..).copied().unwrap_or(1.0), the scale of the one
\* copied trader: his budget over his average position, here 1.
TraderScale == parse_f64(1)

\* `let clip = cash_balance / cost;`
Clip(cash_balance, cost) == FDiv(cash_balance, cost)

\* The call: initial cash is initial_capital less the cost of the positions
\* held before the window, of which there are none here.
BtStart(capitals, maxRows) ==
  /\ bt.pc = "idle"
  /\ \E cap \in capitals, rows \in SeqsUpTo(BtRows, maxRows) :
       /\ \A k \in 1..(Len(rows) - 1) : rows[k].date = "d2" => rows[k + 1].date = "d2"
       /\ bt' = [IdleBt EXCEPT
                   !.pc = "rows", !.initial_capital = parse_f64(cap), !.rows = rows,
                   !.cash_balance = FMax(FAdd(parse_f64(cap), FNeg(FMax(FZero, FZero))), FZero),
                   !.asset_state = [a \in BtAssets |-> Position(FZero, FZero, FZero)]]

\* The point pushed for a date: total_value and pnl as computed, before they
\* are formatted to two decimals.
PointOf(date, cash_balance, st, initial_capital) ==
  LET total_value == FAdd(cash_balance, PositionsValue(st))
  IN [date |-> date, total_value |-> total_value,
      pnl |-> FAdd(total_value, FNeg(initial_capital))]

\* One iteration of `for row in rows`.
BtStep ==
  /\ bt.pc = "rows"
  /\ bt.i <= Len(bt.rows)
  /\ LET row == bt.rows[bt.i]
         points == IF bt.current_date # "" /\ row.date # bt.current_date
                   THEN Append(bt.points, PointOf(bt.current_date, bt.cash_balance,
                                                  bt.asset_state, bt.initial_capital))
                   ELSE bt.points
         delta_tokens == FMul(parse_f64(row.net_token_delta), TraderScale)
         delta_cash == FMul(parse_f64(row.cash_flow_delta), TraderScale)
         price == parse_f64(row.last_price)
         buy == FLt(delta_cash, FZero)
         cost == FNeg(delta_cash)
         clipped == buy /\ FLt(bt.cash_balance, cost) /\ FLt(FZero, bt.cash_balance)
         skipped == buy /\ ~clipped /\ ~FLt(FZero, bt.cash_balance)
         clip == Clip(bt.cash_balance, cost)
         dt == IF clipped THEN FMul(delta_tokens, clip) ELSE delta_tokens
         dc == IF clipped THEN FMul(delta_cash, clip) ELSE delta_cash
         entry == bt.asset_state[row.asset_id]
     IN bt' = IF skipped
              THEN [bt EXCEPT !.i = @ + 1, !.points = points, !.current_date = row.date,
                              !.asset_state[row.asset_id].price = price,
                              !.last = "skipped"]
              ELSE [bt EXCEPT !.i = @ + 1, !.points = points, !.current_date = row.date,
                              !.cash_balance = FAdd(bt.cash_balance, dc),
                              !.asset_state[row.asset_id] =
                                 Position(FAdd(entry.tokens, dt), FAdd(entry.cash, dc), price),
                              !.last = IF clipped THEN "clipped"
                                       ELSE IF buy THEN "buy" ELSE "sell"]

\* After the loop: the final point (resolved prices: none here).
BtFinish ==
  /\ bt.pc = "rows"
  /\ bt.i > Len(bt.rows)
  /\ bt' = [bt EXCEPT !.pc = "done",
                      !.points = IF bt.current_date = "" THEN bt.points
                                 ELSE Append(bt.points,
                                             PointOf(bt.current_date, bt.cash_balance,
                                                     bt.asset_state, bt.initial_capital))]

btFrame == <<now, pipeVars, authVars, clientVars, attempts, warmVars, listVars, apiVars>>

NextBacktest ==
  \/ BtStart({100}, MaxRows) /\ UNCHANGED btFrame
  \/ BtStep /\ UNCHANGED btFrame
  \/ BtFinish /\ UNCHANGED btFrame

SpecBacktest == Init /\ [][NextBacktest]_vars

\* ============================================================ the decoders
\* ws_subscriber.rs decode_order_filled and alerts.rs parse_trade_data /
\* build_live_trade / parse_order_filled, field by field, on one OrderFilled
\* log: the subscriber reads the ABI-decoded U256 values, the webhook reads
\* the decimal strings the indexer serialised them to.
DigitChars == <<"0", "1", "2", "3", "4", "5", "6", "7", "8", "9">>
DigitOf(c) == CHOOSE i \in 0..9 : DigitChars[i + 1] = c

\* U256::to_string: the decimal digits of n.
RECURSIVE ToDecimal(_)
ToDecimal(n) ==
  IF n < 10 THEN <<DigitChars[n + 1]>>
  ELSE ToDecimal(n \div 10) \o <<DigitChars[(n % 10) + 1]>>

\* The decimal string of the raw amount a = whole * 10^6 + frac.
RawString(a) ==
  IF a.whole = 0 THEN ToDecimal(a.frac)
  ELSE ToDecimal(a.whole) \o [i \in 1..6 |-> DigitChars[((a.frac \div 10^(6 - i)) % 10) + 1]]

\* str::parse of a decimal string.
RECURSIVE ParseDec(_)
ParseDec(s) ==
  IF s = <<>> THEN 0
  ELSE ParseDec(SubSeq(s, 1, Len(s) - 1)) * 10 + DigitOf(s[Len(s)])

\* raw.parse::<u128>() split as format_usdc splits it: n / 10^6, n % 10^6.
ParseRaw(s) ==
  IF Len(s) <= 6 THEN [whole |-> 0, frac |-> ParseDec(s)]
  ELSE [whole |-> ParseDec(SubSeq(s, 1, Len(s) - 6)),
        frac |-> ParseDec(SubSeq(s, Len(s) - 5, Len(s)))]

\* The six decimals of r / d after the point, and what remains.
RECURSIVE LongDiv(_, _, _)
LongDiv(r, d, k) ==
  IF k = 0 THEN [q |-> 0, r |-> r]
  ELSE LET rest == LongDiv((r * 10) % d, d, k - 1)
       IN [q |-> ((r * 10) \div d) * 10^(k - 1) + rest.q, r |-> rest.r]

Quot6_floor(n, d) ==
  [whole |-> n \div d, frac |-> LongDiv(n % d, d, 6).q]

\* format!("{price:.6}") of n / d, as (whole, millionths): rounded to the
\* nearest millionth, ties to even.
Quot6(n, d) ==
  LET l == LongDiv(n % d, d, 6)
      up == 2 * l.r > d \/ (2 * l.r = d /\ l.q % 2 = 1)
      f == IF up THEN l.q + 1 ELSE l.q
  IN IF f = 1000000 THEN [whole |-> (n \div d) + 1, frac |-> 0]
     ELSE [whole |-> n \div d, frac |-> f]

RawZero == [whole |-> 0, frac |-> 0]
RawInt(a) == a.whole * 1000000 + a.frac

\* `if token > 0 { usdc / token } else { 0.0 }`, formatted.
PriceOfRaw(usdc, token) ==
  IF token = RawZero THEN RawZero
  ELSE IF usdc.frac = 0 /\ token.frac = 0 THEN Quot6(usdc.whole, token.whole)
  ELSE Quot6(RawInt(usdc), RawInt(token))

\* decode_order_filled without the cache enrichment: Some(LiveTrade, usdc_raw)
\* or None for a mint.
decode_order_filled(log) ==
  LET pick == IF log.makerAssetId = 0
              THEN Some(<<"buy", log.takerAssetId, log.makerAmountFilled, log.takerAmountFilled>>)
              ELSE IF log.takerAssetId = 0
              THEN Some(<<"sell", log.makerAssetId, log.takerAmountFilled, log.makerAmountFilled>>)
              ELSE None
  IN IF pick = None THEN None
     ELSE LET p == pick[1] IN
          Some([side |-> p[1], asset_id |-> ToDecimal(p[2]),
                usdc_amount |-> p[3], amount |-> p[4],
                price |-> PriceOfRaw(p[3], p[4])])

\* The whale alert the subscriber's text arm sends after a decoded log.
WsWhale(log) ==
  LET t == decode_order_filled(log) IN
  IF t = None THEN None
  ELSE IF RawGE(t[1].usdc_amount, WHALE_THRESHOLD_RAW)
  THEN Some([side |-> t[1].side, asset_id |-> t[1].asset_id,
             usdc_amount |-> t[1].usdc_amount, token_amount |-> t[1].amount])
  ELSE None

\* The webhook event the indexer posts for the log: every U256 a string.
RindexerEvent(log) ==
  [makerAssetId |-> ToDecimal(log.makerAssetId),
   takerAssetId |-> ToDecimal(log.takerAssetId),
   makerAmountFilled |-> RawString(log.makerAmountFilled),
   takerAmountFilled |-> RawString(log.takerAmountFilled)]

\* parse_trade_data: (side, asset_id, usdc_raw, token_raw), strings all.
TradeData(event) ==
  IF event.makerAssetId = <<"0">>
  THEN Some([side |-> "buy", asset_id |-> event.takerAssetId,
             usdc_raw |-> event.makerAmountFilled, token_raw |-> event.takerAmountFilled])
  ELSE IF event.takerAssetId = <<"0">>
  THEN Some([side |-> "sell", asset_id |-> event.makerAssetId,
             usdc_raw |-> event.takerAmountFilled, token_raw |-> event.makerAmountFilled])
  ELSE None

\* build_live_trade without the cache enrichment.
HookTrade(event) ==
  LET td == TradeData(event) IN
  IF td = None THEN None
  ELSE Some([side |-> td[1].side, asset_id |-> td[1].asset_id,
             usdc_amount |-> ParseRaw(td[1].usdc_raw),
             amount |-> ParseRaw(td[1].token_raw),
             price |-> PriceOfRaw(ParseRaw(td[1].usdc_raw), ParseRaw(td[1].token_raw))])

\* parse_order_filled without the cache enrichment.
HookWhale(event) ==
  LET td == TradeData(event) IN
  IF td = None THEN None
  ELSE IF ~RawGE(ParseRaw(td[1].usdc_raw), WHALE_THRESHOLD_RAW) THEN None
  ELSE Some([side |-> td[1].side, asset_id |-> td[1].asset_id,
             usdc_amount |-> ParseRaw(td[1].usdc_raw),
             token_amount |-> ParseRaw(td[1].token_raw)])

\* Logs: asset ids 0 (collateral) or a token, amounts below one USDC, of a
\* few USDC, or at the whale threshold and above.
DecAssetIds == {0, 7, 90}
SmallAmounts == {[whole |-> 0, frac |-> 0], [whole |-> 0, frac |-> 3],
                 [whole |-> 0, frac |-> 7], [whole |-> 0, frac |-> 40],
                 [whole |-> 5, frac |-> 0], [whole |-> 10, frac |-> 0]}
LargeAmounts == {[whole |-> 0, frac |-> 0], [whole |-> 25000, frac |-> 0],
                 [whole |-> 50000, frac |-> 0]}
DecLogs ==
  {[makerAssetId |-> m, takerAssetId |-> t, makerAmountFilled |-> am[1],
    takerAmountFilled |-> am[2]] :
     m \in DecAssetIds, t \in DecAssetIds,
     am \in (SmallAmounts \X SmallAmounts) \cup (LargeAmounts \X LargeAmounts)}

\* One log reaches both sources.
DecodeLog(logs) ==
  \E log \in logs :
    dec' = <<[log |-> log,
              ws |-> decode_order_filled(log), ws_alert |-> WsWhale(log),
              hook |-> HookTrade(RindexerEvent(log)),
              hook_alert |-> HookWhale(RindexerEvent(log))]>>

decFrame == <<now, pipeVars, authVars, clientVars, attempts, warmVars, listVars, bt, hot, lb>>

NextDecode ==
  \/ DecodeLog(DecLogs) /\ UNCHANGED decFrame

SpecDecode == Init /\ [][NextDecode]_vars

\* ============================================================= hot markets
\* routes.rs hot_markets: the per-asset rows of the window, fetched in
\* descending volume order, are merged by question. Volumes are in
\* millionths (the six decimals of the volume strings).
HotTokens == {"Y1", "N1", "Y2", "X"}

\* market_info.get(asset_id) after resolve_markets: "X" is in no catalog.
HotInfo(asset_id) ==
  CASE asset_id \in {"Y1", "N1"} -> Some([question |-> "Q1", gamma_token_id |-> asset_id])
    [] asset_id = "Y2" -> Some([question |-> "Q2", gamma_token_id |-> asset_id])
    [] OTHER -> None

\* shorten_id of an id of at most 12 characters.
shorten_id(id) == id

\* A MarketStatsRow.
StatsRow(asset_id, volume) ==
  [asset_id |-> asset_id, volume |-> volume, trade_count |-> 1, unique_traders |-> 1,
   last_price |-> asset_id, last_trade |-> volume]

\* `ORDER BY sum(usdc_amount) DESC LIMIT fetch_limit`: the results the
\* query can return for a table of rows, rows of equal volume in any order.
QueryResults(table, fetch_limit) ==
  {s \in [1..Min(Cardinality(table), fetch_limit) -> table] :
     /\ \A a, b \in 1..Len(s) : a < b => s[a] # s[b] /\ s[a].volume >= s[b].volume
     /\ \A r \in table : (\A a \in 1..Len(s) : s[a] # r) =>
          \A a \in 1..Len(s) : s[a].volume >= r.volume}

QuestionOfRow(r) ==
  IF HotInfo(r.asset_id) = None THEN shorten_id(r.asset_id) ELSE HotInfo(r.asset_id)[1].question

\* `info.map(|i| i.gamma_token_id).unwrap_or_else(|| to_integer_id(asset_id))`
\* for ids in integer form.
DisplayId(r) ==
  IF HotInfo(r.asset_id) = None THEN r.asset_id ELSE HotInfo(r.asset_id)[1].gamma_token_id

MergedVolume_last(existing_vol, vol) == vol

\* `existing.volume = format!("{:.6}", existing_vol + vol)`
MergedVolume(existing_vol, vol) == existing_vol + vol

\* The `merged` map after the first k rows, as the set of its values.
RECURSIVE Merged(_, _)
Merged(rows, k) ==
  IF k = 0 THEN {}
  ELSE LET m == Merged(rows, k - 1)
           r == rows[k]
           question == QuestionOfRow(r)
       IN IF \E e \in m : e.question = question
          THEN LET existing == CHOOSE e \in m : e.question = question
                   later == r.last_trade > existing.last_trade
               IN (m \ {existing}) \cup
                  {[existing EXCEPT
                      !.volume = MergedVolume(existing.volume, r.volume),
                      !.trade_count = @ + r.trade_count,
                      !.unique_traders = @ + r.unique_traders,
                      !.all_token_ids = Append(@, DisplayId(r)),
                      !.last_trade = IF later THEN r.last_trade ELSE @,
                      !.last_price = IF later THEN r.last_price ELSE @,
                      !.token_id = IF r.volume > existing.volume THEN DisplayId(r) ELSE @]}
          ELSE m \cup {[token_id |-> DisplayId(r), all_token_ids |-> <<DisplayId(r)>>,
                        question |-> question, volume |-> r.volume,
                        trade_count |-> r.trade_count, unique_traders |-> r.unique_traders,
                        last_price |-> r.last_price, last_trade |-> r.last_trade]}

\* into_values, sort_by volume descending, truncate(limit): the responses
\* the handler can give, markets of equal volume in any order.
HotResponses(m, limit) ==
  {s \in [1..Min(Cardinality(m), limit) -> m] :
     /\ \A a, b \in 1..Len(s) : a < b => s[a] # s[b] /\ s[a].volume >= s[b].volume
     /\ \A e \in m : (\A a \in 1..Len(s) : s[a] # e) =>
          \A a \in 1..Len(s) : s[a].volume >= e.volume}

\* GET /markets/hot?limit.
HotMarkets(tables, limits) ==
  \E table \in tables, lim \in limits :
    LET limit == Min(unwrap_or(lim, 20), 100)
        fetch_limit == limit * 3
    IN \E rows \in QueryResults(table, fetch_limit) :
         \E markets \in HotResponses(Merged(rows, Len(rows)), limit) :
           hot' = <<[limit |-> limit, rows |-> rows, markets |-> markets]>>

\* Tables in which every token has traded or not, with volumes from
\* 0.000001 up.
HotTables ==
  {{StatsRow(a, v[a]) : a \in {t \in HotTokens : v[t] > 0}} : v \in [HotTokens -> 0..MaxVolume]}

hotFrame == <<now, pipeVars, authVars, clientVars, attempts, warmVars, listVars, bt, dec, lb>>

NextHot ==
  \/ HotMarkets(HotTables, {None, Some(1)}) /\ UNCHANGED hotFrame

SpecHot == Init /\ [][NextHot]_vars

\* ============================================================= leaderboard
\* routes.rs leaderboard and warm_leaderboard. A string is the sequence of
\* its pieces, ":" a piece of its own, a number the sequence of its digits.
ALLOWED_SORT_COLUMNS == {<<"realized_pnl">>, <<"total_volume">>, <<"trade_count">>}
LB_TTL == 30

\* format!("{sort}:{order}:{limit}:{offset}:{timeframe}")
LbCacheKey(sort, order, limit, offset, timeframe) ==
  sort \o <<":">> \o order \o <<":">> \o ToDecimal(limit) \o <<":">>
       \o ToDecimal(offset) \o <<":">> \o timeframe

\* HashMap::get / HashMap::insert on the cache, a set of entries by key.
LbGet(c, key) == IF \E e \in c : e.key = key THEN Some(CHOOSE e \in c : e.key = key) ELSE None
LbInsert(c, key, expires, sort, order) ==
  {e \in c : e.key # key} \cup {[key |-> key, expires |-> expires, sort |-> sort, order |-> order]}

Fresh_always(entry, instant) == TRUE

\* `if entry.expires > Instant::now()`
Fresh(entry, instant) == entry.expires > instant

\* Query strings of GET /leaderboard.
LbSorts == {None, Some(<<"bogus">>)}
LbOrders == {None, Some(<<"sideways">>), Some(<<"desc", ":", "1">>)}
LbLimits == {None, Some(1), Some(2)}
LbOffsets == {Some(2), Some(3)}
LbTimeframes == {None, Some(<<"x">>), Some(<<"3", ":", "x">>)}
LbParams ==
  [sort : LbSorts, order : LbOrders, limit : LbLimits, offset : LbOffsets,
   timeframe : LbTimeframes]

\* GET /leaderboard: the cache lookup, the two parameter checks, the
\* queries (which may fail) and the cache store.
Leaderboard(requests) ==
  /\ lb.last.n < MaxLbRequests
  /\ \E params \in requests, db_ok \in BOOLEAN :
       LET sort == unwrap_or(params.sort, <<"realized_pnl">>)
           order == unwrap_or(params.order, <<"desc">>)
           limit == Min(unwrap_or(params.limit, 100), 500)
           offset == unwrap_or(params.offset, 0)
           timeframe == unwrap_or(params.timeframe, <<"all">>)
           key == LbCacheKey(sort, order, limit, offset, timeframe)
           entry == LbGet(lb.cache, key)
           hit == entry # None /\ Fresh(entry[1], mono)
           valid == sort \in ALLOWED_SORT_COLUMNS /\ order \in {<<"asc">>, <<"desc">>}
           answer(status, from_cache, queried, stored) ==
             [n |-> lb.last.n + 1, params |-> params, key |-> key, at |-> mono,
              status |-> status, from_cache |-> from_cache,
              expires |-> IF from_cache THEN entry[1].expires ELSE 0,
              queried |-> queried, stored |-> stored]
       IN lb' = IF hit THEN [lb EXCEPT !.last = answer(200, TRUE, FALSE, FALSE)]
                ELSE IF ~valid THEN [lb EXCEPT !.last = answer(400, FALSE, FALSE, FALSE)]
                ELSE IF ~db_ok THEN [lb EXCEPT !.last = answer(500, FALSE, TRUE, FALSE)]
                ELSE [cache |-> LbInsert(lb.cache, key, mono + LB_TTL, sort, order),
                      last |-> answer(200, FALSE, TRUE, TRUE)]

\* warm_leaderboard: the default query, stored when it succeeds.
WarmLeaderboard ==
  \E db_ok \in BOOLEAN :
    LET sort == <<"realized_pnl">>
        order == <<"desc">>
        key == LbCacheKey(sort, order, 25, 0, <<"all">>)
    IN lb' = IF db_ok
             THEN [lb EXCEPT !.cache = LbInsert(lb.cache, key, mono + LB_TTL, sort, order)]
             ELSE lb

\* Instant::now() between the requests.
LbClock == {0, 29, 30}
LbTick ==
  /\ \E t \in LbClock : t > mono /\ mono' = t
  /\ UNCHANGED lb

lbFrame == <<now, pipeVars, authVars, clients, det, tx_open, attempts, warmVars, listVars,
             bt, dec, hot>>

NextLeaderboard ==
  \/ Leaderboard(LbParams) /\ UNCHANGED <<mono, lbFrame>>
  \/ WarmLeaderboard /\ UNCHANGED <<mono, lbFrame>>
  \/ LbTick /\ UNCHANGED lbFrame

SpecLeaderboard == Init /\ [][NextLeaderboard]_vars

\* ================================================================ claims
\* Positions in the trade channel of the LiveTrades sent for fill f by
\* source src, and of those sent by webhook request r.
SentBy(src, f) == {k \in 1..Len(trades) : trades[k].src = src /\ trades[k].tx_hash = f}
TradesOfReq(r) == {k \in 1..Len(trades) : trades[k].src = "webhook" /\ trades[k].req = r}
AlertsOfEvent(r, i) ==
  {k \in 1..Len(alerts) : alerts[k].src = "webhook" /\ alerts[k].req = r /\ alerts[k].idx = i}
TradesOfEvent(r, i) == {k \in TradesOfReq(r) : trades[k].idx = i}
\* LiveTrades on the channel that agree with trade m on (tx_hash, asset_id, usdc_amount).
SameFill(m) ==
  {k \in 1..Len(trades) : /\ trades[k].tx_hash = m.tx_hash
                          /\ trades[k].asset_id = m.asset_id
                          /\ trades[k].usdc_amount = m.usdc_amount}
IsFill(ev) == ev.fill # 0 /\ Classify(OnChainFill(ev.fill)) # None
Handled(r, i) == {h \in handled : h.req = r /\ h.idx = i}

\* C1: a webhook request that loaded ws_active = TRUE sends no LiveTrade, so
\* a fill it carries that the subscriber also received is on the trade
\* channel at most once.
C1_WebhookSilentWhenActive ==
  \A r \in Reqs :
    reqs[r].ws_active =>
      /\ TradesOfReq(r) = {}
      /\ \A i \in 1..Len(reqs[r].events) :
           \A k \in 1..Len(trades) :
             trades[k].tx_hash = reqs[r].events[i].fill => Cardinality(SameFill(trades[k])) <= 1

\* A request that loaded TRUE has handled a live fill which the subscriber
\* received and sent.
C1_Witness ==
  \E r \in Reqs :
    /\ reqs[r].pc = "done" /\ reqs[r].ws_active /\ reqs[r].events # <<>>
    /\ IsFill(reqs[r].events[1])
    /\ \E h \in Handled(r, 1) : h.live
    /\ SentBy("ws", reqs[r].events[1].fill) # {}

\* C2 (as claimed): no fill is sent on the trade channel by both sources.
C2_AtMostOneSource ==
  \A f \in Fills : ~(SentBy("ws", f) # {} /\ SentBy("webhook", f) # {})

\* C2 (amended): each source sends a fill at most once, and both send it only
\* if the webhook request carrying it loaded ws_active while the subscriber
\* was outside its message loop (not yet subscribed, or disconnected).
C2_DuplicateOnlyOutsideSubscription ==
  \A f \in Fills :
    /\ Cardinality(SentBy("ws", f)) <= 1
    /\ Cardinality(SentBy("webhook", f)) <= 1
    /\ (SentBy("ws", f) # {} /\ SentBy("webhook", f) # {}) =>
         \A k \in SentBy("webhook", f) : ~reqs[trades[k].req].loadStreaming

\* Both sources have sent the same fill: the subscriber first, and the
\* webhook after the disconnect.
C2_Witness ==
  \E f \in Fills :
    \E a \in SentBy("ws", f), b \in SentBy("webhook", f) :
      a < b /\ reqs[trades[b].req].loadEpoch >= 1

\* C3: a request that loaded ws_active while the subscriber was outside its
\* message loop sends the LiveTrade of every live fill it handles; a request
\* that loaded it during an acknowledged subscription sends none.
C3_FallbackHandoff ==
  \A r \in Reqs :
    /\ reqs[r].loadStreaming => TradesOfReq(r) = {}
    /\ ~reqs[r].loadStreaming =>
         \A h \in handled :
           (h.req = r /\ h.live /\ IsFill(reqs[r].events[h.idx])) =>
             \E k \in TradesOfEvent(r, h.idx) :
               trades[k].tx_hash = reqs[r].events[h.idx].fill

\* The first request arrived after the first subscription was lost and sent
\* its fill; the second arrived during the second subscription, handled a
\* live fill and sent nothing.
C3_Witness ==
  \E r1, r2 \in Reqs :
    /\ reqs[r1].loadEpoch = 1 /\ ~reqs[r1].loadStreaming /\ TradesOfReq(r1) # {}
    /\ reqs[r2].loadEpoch = 2 /\ reqs[r2].loadStreaming /\ reqs[r2].pc = "done"
    /\ reqs[r2].events # <<>>
    /\ IsFill(reqs[r2].events[1])
    /\ \E h \in Handled(r2, 1) : h.live

\* C4: while run sleeps before a reconnect or attempts to connect, ws_active
\* is false.
C4_ClearedWhenNotConnected ==
  pc \in {"sleep", "connect"} => ~ws_active

\* run sleeps after losing a subscription during which the flag was set.
C4_Witness == pc = "sleep" /\ epoch >= 1 /\ sub_id = None /\ ws_seen # {}

\* C5: ws_active is true only inside the message loop of a connection whose
\* subscription was acknowledged with a subscription id.
C5_ActiveOnlyAfterAck ==
  ws_active => (pc = "stream" /\ sub_id # None)

\* The flag is set on the second connection, after its own acknowledgement.
C5_Witness == ws_active /\ epoch = 2 /\ sub_id = Some("sub")

\* C6: a notification with removed = TRUE yields no LiveTrade and no
\* WhaleTrade: nothing the subscriber sent stems from a removed log, and a
\* fill seen only as removed has no message from the subscriber.
C6_RemovedLogSkipped ==
  /\ \A k \in 1..Len(trades) : trades[k].src = "ws" => ~trades[k].removed
  /\ \A k \in 1..Len(alerts) : alerts[k].src = "ws" => ~alerts[k].removed
  /\ \A f \in Fills :
       [fill |-> f, removed |-> FALSE] \notin ws_seen =>
         /\ SentBy("ws", f) = {}
         /\ \A k \in 1..Len(alerts) : ~(alerts[k].src = "ws" /\ alerts[k].tx_hash = f)

\* The subscriber has read the removed log of a whale-sized fill.
C6_Witness ==
  \E n \in ws_seen :
    /\ n.removed
    /\ Classify(OnChainFill(n.fill)) # None
    /\ RawGE(Classify(OnChainFill(n.fill))[1].usdc_raw, WHALE_THRESHOLD_RAW)
    /\ [fill |-> n.fill, removed |-> FALSE] \notin ws_seen

\* C7: an event whose block_timestamp is 300 s or more from the wall clock
\* the handler read for it yields no LiveTrade and no Alert from the webhook.
C7_BackfillGuard ==
  \A r \in Reqs : \A h \in handled :
    (h.req = r /\ reqs[r].events[h.idx].ts.ok
       /\ Abs(h.clock - reqs[r].events[h.idx].ts.v) >= LIVE_WINDOW) =>
      TradesOfEvent(r, h.idx) = {} /\ AlertsOfEvent(r, h.idx) = {}

\* Two finished requests, neither of which loaded ws_active = TRUE: a stale
\* whale-sized fill (exactly 300 s old) and a stale well-formed resolution.
C7_Witness ==
  \E r1, r2 \in Reqs :
    /\ reqs[r1].pc = "done" /\ reqs[r1].event_name = "OrderFilled" /\ ~reqs[r1].ws_active
    /\ reqs[r1].events # <<>> /\ reqs[r2].events # <<>>
    /\ IsFill(reqs[r1].events[1])
    /\ RawGE(Classify(OnChainFill(reqs[r1].events[1].fill))[1].usdc_raw, WHALE_THRESHOLD_RAW)
    /\ reqs[r1].events[1].ts.ok
    /\ \E h \in Handled(r1, 1) : h.clock - reqs[r1].events[1].ts.v = LIVE_WINDOW
    /\ reqs[r2].pc = "done" /\ reqs[r2].event_name = "ConditionResolution"
    /\ reqs[r2].events[1].wellformed /\ reqs[r2].events[1].ts.ok
    /\ \E h \in Handled(r2, 1) : ~h.live

\* C8 (as claimed): every fill the webhook has handled whose token the cache
\* knows (so that there is an enrichment record to push) has its record on
\* the metadata side-channel, live or backfill.
C8_EveryFillEnriched ==
  \A r \in Reqs : \A h \in handled :
    (h.req = r /\ reqs[r].event_name = "OrderFilled" /\ h.hit) =>
      \E k \in 1..Len(metadata) : metadata[k].req = r /\ metadata[k].idx = h.idx

OnlyForeignRecords(reply, cid) ==
  /\ reply.ok
  /\ reply.body # <<>>
  /\ \A j \in 1..Len(reply.body) :
       \/ reply.body[j].conditionId = None
       \/ strip_prefix_0x(reply.body[j].conditionId[1]) # strip_prefix_0x(cid)

\* C10: a catalog response whose records all carry another conditionId
\* populates none of question, outcomes, winning_outcome, token_id.
C10_ForeignResponseIgnored ==
  \A k \in 1..Len(alerts) :
    (alerts[k].kind = "MarketResolution" /\ alerts[k].gamma # None
       /\ OnlyForeignRecords(alerts[k].gamma[1], alerts[k].condition_id)) =>
      /\ alerts[k].question = None
      /\ alerts[k].outcomes = <<>>
      /\ alerts[k].winning_outcome = None
      /\ alerts[k].token_id = None

\* An alert was sent after the catalog answered with a complete record of
\* another market.
C10_Witness ==
  \E k \in 1..Len(alerts) :
    /\ alerts[k].kind = "MarketResolution" /\ alerts[k].gamma # None
    /\ OnlyForeignRecords(alerts[k].gamma[1], alerts[k].condition_id)
    /\ alerts[k].gamma[1].body[1].question # None

\* ------------------------------------------------------------ wallet auth
Done(v) == verifies[v].pc = "done"
Replay(v) == Done(v) /\ verifies[v].body \in verifies[v].prior

\* C11 (as stated): a verify that presents again the (address, nonce,
\* issued_at, signature) of an earlier successful verify fails with
\* NonceMismatch.
C11_ReplayFailsNonceMismatch ==
  \A v \in Verifies : Replay(v) => verifies[v].result = "NonceMismatch"

\* C11 (amended): a verify that presents again the (address, nonce,
\* issued_at, signature) of an earlier successful verify issues no JWT; it
\* fails with NonceMismatch, or with Expired once issued_at has left the
\* sign-in window, which is checked before the nonce.
C11_ReplayRejected ==
  \A v \in Verifies :
    Replay(v) =>
      /\ verifies[v].result \in {"NonceMismatch", "Expired"}
      /\ verifies[v].result = "NonceMismatch" =>
           recover_eip712_signer(verifies[v].body.address, verifies[v].body.nonce,
                                 verifies[v].body.issued_at, verifies[v].body.signature,
                                 verifies[v].checked_at) = "Ok"

C11_Witness ==
  \E v \in Verifies : Replay(v) /\ verifies[v].result = "NonceMismatch"

\* C12: of the verify requests that carry the same (address, nonce,
\* issued_at, signature), at most one returns a JWT, also when they run
\* concurrently.
C12_AtMostOneJwt ==
  \A v, w \in Verifies :
    (v # w /\ verifies[v].body = verifies[w].body /\ verifies[v].result = "Ok")
      => verifies[w].result # "Ok"

C12_Witness ==
  \E v, w \in Verifies :
    /\ v # w /\ verifies[v].body = verifies[w].body
    /\ verifies[w].raced
    /\ verifies[v].result = "Ok" /\ verifies[w].result = "NonceMismatch"

\* C13 (as stated): a verify whose (nonce, issued_at) is not the stored pair
\* of its address is rejected with NonceMismatch.
C13_MismatchIsNonceMismatch ==
  \A v \in Verifies :
    (Done(v) /\ ~verifies[v].matched) => verifies[v].result = "NonceMismatch"

\* C13 (amended): a verify whose (nonce, issued_at) is not the stored pair
\* of its address (or whose address has no row) is rejected as unauthorized
\* and issues no JWT: with NonceMismatch when it passes the signature check,
\* which comes first, and with InvalidSignature or Expired otherwise; and
\* the step that rejects it leaves every user row unchanged.
C13_MismatchRejectedNoWrite ==
  [][\A v \in Verifies :
       (~Done(v) /\ verifies'[v].pc = "done" /\ ~verifies[v].matched) =>
         /\ verifies'[v].result \in {"InvalidSignature", "Expired", "NonceMismatch"}
         /\ verifies[v].pc = "rotate" => verifies'[v].result = "NonceMismatch"
         /\ users' = users]_vars

C13_Witness ==
  \E v \in Verifies :
    /\ Done(v) /\ ~verifies[v].matched /\ verifies[v].result = "NonceMismatch"
    /\ users[to_lowercase(verifies[v].body.address)] # None

\* ----------------------------------------------------------- WS consumers
Sg == clients["signals"]
Tc == clients["trades"]
Ac == clients["alerts"]

FramesOf(cl, kind, idx) ==
  {i \in 1..Len(cl.frames) : cl.frames[i].kind = kind /\ cl.frames[i].idx = idx}

InS(idx) == to_lowercase(trades[idx].trader) \in Sg.trader_set

AlertsReturned == {k \in 1..Len(Sg.seen) : Sg.seen[k].alert # None}

\* C15: record_trade returns an alert only if the asset's list, after the
\* append and the eviction, holds trades of at least 2 distinct traders;
\* trades of a single trader never produce an alert.
C15_AlertNeedsTwoTraders ==
  \A k \in AlertsReturned :
    Cardinality({to_lowercase(t) : t \in Sg.seen[k].alert[1].traders}) >= CONVERGENCE_THRESHOLD

\* C16: two alerts returned by one detector for the same asset are at
\* least 60 s apart, whatever the interleaving of record_trade and sweep.
C16_AlertsSixtyApart ==
  \A j, k \in AlertsReturned :
    (j < k /\ Sg.seen[j].alert[1].asset_id = Sg.seen[k].alert[1].asset_id)
      => Sg.seen[k].alert[1].at - Sg.seen[j].alert[1].at >= CONVERGENCE_DEDUP

\* Two alerts for one asset on one connection, the second 60 s or more
\* after the first.
C16_Witness ==
  \E j, k \in AlertsReturned :
    /\ j < k
    /\ Sg.seen[j].alert[1].asset_id = Sg.seen[k].alert[1].asset_id
    /\ Sg.seen[k].alert[1].at > Sg.seen[j].alert[1].at

\* C17: a /ws/signals request with both list_id and top_n, or with neither,
\* is rejected before the upgrade and never subscribes to the trade channel.
C17_ExactlyOneSelector ==
  (/\ Sg.params # <<>>
   /\ (Sg.params.list_id = None) = (Sg.params.top_n = None))
    => (Sg.pc = "rejected" /\ ~Sg.rx)

\* ------------------------------------------------------------ /ws/trades
\* The forms under which a client can name a token.
FormsOf(token) == IF token = TokenX THEN {TokenX, TokenXSci} ELSE {token}
Listed(token) == \E i \in 1..Len(Tc.params) : trim(Tc.params[i]) \in FormsOf(token)

RECURSIVE SumSeq(_)
SumSeq(q) == IF q = <<>> THEN 0 ELSE Head(q) + SumSeq(Tail(q))

LagFrames(cl) == {i \in 1..Len(cl.frames) : cl.frames[i].kind = "Lag"}

\* C19: a send on either channel is possible whatever the consumers are
\* doing; a consumer that fell more than the capacity behind is told at its
\* next receive how many messages it lost, every message it passed being
\* either received or counted as dropped; /ws/signals forwards the count as
\* a Lag frame, /ws/alerts and /ws/trades only log it, and all three go on.
C19_NoBackpressure ==
  /\ (tx_open /\ Len(trades) < MaxFanout) => ENABLED PublishTrade(FanoutKinds, MaxFanout)
  /\ (tx_open /\ Len(alerts) < MaxAlerts) => ENABLED PublishAlert
  /\ \A c \in ClientIds :
       LET cl == clients[c]
       IN /\ cl.next = cl.start + Len(cl.seen) + SumSeq(cl.lagged)
          /\ cl.next <= Len(Chan(c))
          /\ \A i \in 1..Len(cl.lagged) : cl.lagged[i] > 0
          /\ cl.last \in {"lag_logged", "lag_sent", "send_failed_lag"} => cl.pc = "open"
  /\ LagFrames(Ac) = {} /\ LagFrames(Tc) = {}
  /\ Cardinality(LagFrames(Sg)) <= Len(Sg.lagged)
  /\ Sg.last = "lag_sent" =>
       /\ Sg.frames[Len(Sg.frames)].kind = "Lag"
       /\ Sg.frames[Len(Sg.frames)].dropped = Sg.lagged[Len(Sg.lagged)]
  /\ Ac.last # "lag_sent" /\ Tc.last # "lag_sent"

\* All three consumers stalled while both channels wrapped, and each was
\* told of the loss.
C19_Witness ==
  /\ Ac.lagged = <<1>> /\ Tc.lagged = <<1>> /\ Sg.lagged = <<1>>
  /\ Len(trades) = MaxFanout /\ Len(alerts) = MaxAlerts
  /\ Sg.frames # <<>> /\ Sg.frames[1].kind = "Lag" /\ Sg.frames[1].dropped = 1
  /\ Ac.pc = "open" /\ Tc.pc = "open" /\ Sg.pc = "open"

TerminatingEvents ==
  {"socket_close", "socket_end", "socket_error", "channel_closed",
   "send_failed_alert", "send_failed_trade", "send_failed_convergence", "send_failed_lag"}

\* C20: a client loop that met a close frame, the end of the stream, a
\* socket error, the failure of a frame send (Trade, Convergence, Alert or
\* Lag) or the closure of its channel has terminated and its receiver no
\* longer counts as a subscriber.
C20_EveryFailureTerminates ==
  \A c \in ClientIds :
    clients[c].last \in TerminatingEvents => (clients[c].pc = "closed" /\ ~clients[c].rx)

\* Whether the webhook's messages on channel chan are in reception order:
\* requests are numbered as they arrive, events by their place in the payload.
HookOrdered(chan) ==
  \A a, b \in 1..Len(chan) :
    (a < b /\ chan[a].src = "webhook" /\ chan[b].src = "webhook") =>
      \/ chan[a].req < chan[b].req
      \/ (chan[a].req = chan[b].req /\ chan[a].idx <= chan[b].idx)

\* C21: within a source, events are broadcast in reception order. The
\* subscriber sends in the step that reads the notification; for the webhook
\* the trades and the alerts of events received earlier are on their channel
\* before those of events received later, also when requests are handled
\* concurrently and one is suspended on the catalog lookup.
C21_ReceptionOrder == HookOrdered(trades) /\ HookOrdered(alerts)

\* C30: the whale threshold is inclusive at 25,000 USDC in both sources. A log
\* the subscriber read and did not skip has a WhaleTrade alert from it iff its
\* dollar amount is >= the threshold; a live fill handled by a webhook request
\* that loaded ws_active = FALSE has one from that request iff its amount is
\* >= the threshold; nothing else puts a WhaleTrade on the alert channel.
WhaleOf(src, f) ==
  {k \in 1..Len(alerts) : /\ alerts[k].kind = "WhaleTrade"
                          /\ alerts[k].src = src /\ alerts[k].tx_hash = f}
\* usdc_raw >= 25,000,000,000 raw units, i.e. at least 25,000 whole dollars.
IsWhaleFill(f) ==
  /\ Classify(OnChainFill(f)) # None
  /\ Classify(OnChainFill(f))[1].usdc_raw.whole >= 25000
C30_WhaleThresholdInclusive ==
  /\ \A f \in Fills :
       Cardinality(WhaleOf("ws", f)) =
         IF [fill |-> f, removed |-> FALSE] \in ws_seen /\ IsWhaleFill(f) THEN 1 ELSE 0
  /\ \A f \in Fills :
       Cardinality(WhaleOf("webhook", f)) =
         IF /\ IsWhaleFill(f)
            /\ \E r \in Reqs : \E i \in 1..Len(reqs[r].events) :
                 /\ reqs[r].events[i].fill = f /\ ~reqs[r].ws_active
                 /\ \E h \in Handled(r, i) : h.live
         THEN 1 ELSE 0
  /\ OnChainFill(1).makerAmountFilled = [whole |-> 25000, frac |-> 0]
  /\ OnChainFill(2).takerAmountFilled = [whole |-> 24999, frac |-> 999999]

\* Both sources have handled the fill of exactly 25,000 USDC and alerted on
\* it, and the fill of 24,999.999999 USDC without an alert.
C30_Witness ==
  /\ WhaleOf("ws", 1) # {} /\ WhaleOf("webhook", 1) # {}
  /\ [fill |-> 2, removed |-> FALSE] \in ws_seen
  /\ \E r \in Reqs : /\ reqs[r].events # <<>> /\ reqs[r].events[1].fill = 2
                     /\ ~reqs[r].ws_active /\ \E h \in Handled(r, 1) : h.live
  /\ WhaleOf("ws", 2) = {} /\ WhaleOf("webhook", 2) = {}

\* C22: reconnect delays follow exponential backoff: of the consecutive
\* sleeps since the last acknowledged subscription the first lasts 2 s, each
\* further one (after a connect failure, a failed subscribe send, a rejection
\* or a missing acknowledgement) twice the one before, capped at 60 s; no
\* delay is below 2 s or above 60 s.
C22_ExponentialBackoff ==
  /\ \A i \in 1..Len(attempts) :
       attempts[i].delay >= RECONNECT_BASE_DELAY /\ attempts[i].delay <= RECONNECT_MAX_DELAY
  /\ attempts # <<>> => attempts[1].delay = RECONNECT_BASE_DELAY
  /\ \A i \in 1..(Len(attempts) - 1) :
       attempts[i + 1].delay = Min(2 * attempts[i].delay, RECONNECT_MAX_DELAY)

\* C23: digest collision invariant: a token id t and its scientific-notation
\* projection s(t) have the same cache key, so a cache entry inserted under
\* the full-precision id is found by a lookup with the projection. Checked
\* for the projections of the ids the warm cycle met.
C23_DigestOfProjection ==
  \A p \in TokenForms :
    /\ (p.full \in warm.assets \/ p.sci \in warm.assets) =>
         cache_key(p.full) = cache_key(p.sci)
    /\ (\E e \in cache : e.gamma_token_id = p.full) =>
         CacheGet(cache, cache_key(p.sci)) # None

\* C24: the pagination loop of warm_cache terminates: every cycle reaches its
\* end, having stopped because the covered digests reached the target count,
\* a page was short or empty, a fetch or parse failed, or offset reached
\* 100,000; it has requested at most 1,000 pages; and the cache write lock is
\* held only during one page's insert, never while a page is requested.
C24_Safety ==
  /\ warm.pages <= max_offset \div batch
  /\ warm.pages <= 1000
  /\ cache_lock = "write" <=> warm.pc = "insert"
  /\ warm.pc = "done" =>
       CASE warm.stop = "covered" -> Cardinality(warm.covered) >= Cardinality(warm.target)
         [] warm.stop = "short_page" -> warm.count < 100
         [] warm.stop = "max_offset" -> warm.offset = 100000 /\ warm.pages = 1000
         [] warm.stop = "error" -> warm.pages >= 1
         [] warm.stop \in {"query_failed", "no_tokens"} -> warm.pages = 0
         [] OTHER -> FALSE
C24_WarmTerminates == []C24_Safety /\ <>(warm.pc = "done")

\* A cycle that ran into the offset limit after 1,000 full pages.
C24_Witness ==
  /\ warm.pc = "done" /\ warm.stop = "max_offset"
  /\ warm.pages = 1000 /\ cache_lock = "free" /\ cache # {}

\* The on-chain payout vector of the market of asset a, as the cache and the
\* resolutions of the cycle give it: <<>> when there is none.
PayoutOf(a) ==
  LET info == {e \in cache : e.key = cache_key(a)}
      res == {r \in warm.resolutions : \E e \in info :
                e.condition_id # None
                /\ strip_prefix_0x(e.condition_id[1]) = strip_prefix_0x(r.condition_id)}
  IN IF res = {} THEN <<>>
     ELSE LET r == CHOOSE x \in res : TRUE
          IN [k \in 1..Len(r.payout_numerators) |->
                CASE r.payout_numerators[k] = "1" -> 1
                  [] r.payout_numerators[k] = "2" -> 2 [] OTHER -> 0]
IndexOf(a) == (CHOOSE e \in cache : e.key = cache_key(a)).outcome_index

\* C25: every row populate_resolved_prices computes carries
\* numerator[outcome_index] / sum(numerators) of its market's on-chain payout
\* vector, to the six decimals of the column (in millionths: the nearest to
\* the quotient), within 0..1; a market whose numerators sum to 0 has no row.
C25_ResolvedPrice ==
  warm.pc = "truncate" =>
    \A row \in warm.rows :
      LET nums == PayoutOf(row.asset_id)
          sum == SumSeq(nums)
          n == nums[IndexOf(row.asset_id) + 1]
          d == row.resolved_price * sum - n * 1000000
      IN /\ nums # <<>> /\ sum > 0
         /\ IndexOf(row.asset_id) + 1 <= Len(nums)
         /\ 2 * Abs(d) <= sum
         /\ (n * 1000000) % sum = 0 => d = 0
         /\ row.resolved_price >= 0 /\ row.resolved_price <= 1000000

\* Rows were computed for both tokens of a market resolved 1 : 2, priced
\* 0.333333 and 0.666667.
C25_Witness ==
  /\ warm.pc = "truncate"
  /\ \E r1, r2 \in warm.rows :
       /\ r1.asset_id = TokenX /\ r1.resolved_price = 333333
       /\ r2.asset_id = TokenR /\ r2.resolved_price = 666667

\* A trader-list call was made in this step.
Called(op) == list_op'.n = list_op.n + 1 /\ list_op'.op = op
OwnerOf(id) == lists[id][1].owner
Exists(id) == id \in ListIds /\ lists[id] # None
AddressesOf(b) == {b[k].address : k \in 1..Len(b)}

\* C26: trader-list limits: no owner has more than 20 lists and no list more
\* than 100 members, whatever calls are made; a create by an owner who has 20
\* lists, and an add by the owner that would bring the list above 100
\* members, return LimitExceeded and change nothing.
C26_LimitsInv ==
  /\ \A o \in ListOwners :
       Cardinality({id \in ListIds : Exists(id) /\ OwnerOf(id) = o}) <= 20
  /\ \A id \in ListIds : Cardinality(members[id]) <= 100
  /\ \A id \in ListIds : ~Exists(id) => members[id] = {}
C26_LimitsStep ==
  /\ (Called("create") /\
      Cardinality({id \in ListIds : Exists(id) /\ OwnerOf(id) = list_op'.owner}) >= 20)
       => (list_op'.result = "LimitExceeded" /\ lists' = lists /\ members' = members)
  /\ (Called("add") /\ Exists(list_op'.id) /\ OwnerOf(list_op'.id) = list_op'.owner /\
      Cardinality({r.address : r \in members[list_op'.id]} \cup AddressesOf(list_op'.arg)) > 100)
       => (list_op'.result = "LimitExceeded" /\ lists' = lists /\ members' = members)
C26_ListLimits == []C26_LimitsInv /\ [][C26_LimitsStep]_vars

\* The owner holds 20 lists and was refused a 21st, and list 1 holds 100
\* members.
C26_Witness ==
  /\ list_op.op = "create" /\ list_op.result = "LimitExceeded" /\ list_op.owner = "0xab"
  /\ Cardinality({id \in ListIds : Exists(id) /\ OwnerOf(id) = "0xab"}) = 20
  /\ Cardinality(members[1]) = 100

\* C27: ownership check: a get, rename, delete, add, remove or address read on
\* an existing list by someone other than its owner returns NotFound and
\* leaves the list's row (name, updated_at) and members as they were.
C27_Step ==
  (/\ list_op'.n = list_op.n + 1
   /\ list_op'.op \in {"get", "rename", "delete", "add", "remove", "addresses"}
   /\ Exists(list_op'.id) /\ OwnerOf(list_op'.id) # list_op'.owner)
    => /\ list_op'.result = "NotFound"
       /\ list_op'.out = {}
       /\ lists' = lists
       /\ members' = members
C27_OwnershipCheck == [][C27_Step]_vars

\* Someone else's rename of an existing list was answered NotFound.
C27_Witness ==
  /\ list_op.op = "rename" /\ list_op.result = "NotFound"
  /\ Exists(list_op.id) /\ OwnerOf(list_op.id) # list_op.owner
  /\ lists[list_op.id][1].name = list_op.id

\* C28: adding members is idempotent: when the owner's add_list_members call
\* has succeeded, the same call made again succeeds and leaves the member
\* rows (address, label, added_at) as they are, also at or near 100 members.
C28_Step ==
  (/\ list_op.op = "add" /\ list_op.result = "Ok"
   /\ Called("add")
   /\ list_op'.owner = list_op.owner /\ list_op'.id = list_op.id /\ list_op'.arg = list_op.arg)
    => (list_op'.result = "Ok" /\ members' = members)
C28_AddIdempotent == [][C28_Step]_vars

\* C29: backtest capital constraint: a buy row whose cost exceeds a positive
\* cash_balance is executed scaled by cash_balance / cost and leaves
\* cash_balance at 0; a buy row met with cash_balance <= 0 changes no tokens
\* or cash and only refreshes the price; cash_balance is never negative.
C29_NonNegative == bt.pc # "idle" => ~FLt(bt.cash_balance, FZero)
C29_Step ==
  (bt.pc = "rows" /\ bt'.pc = "rows" /\ bt'.i = bt.i + 1) =>
    LET row == bt.rows[bt.i]
        buy == row.cash_flow_delta < 0
        a == row.asset_id
    IN /\ (buy /\ FLt(FZero, bt.cash_balance)
               /\ FLt(bt.cash_balance, parse_f64(-row.cash_flow_delta)))
            => /\ bt'.last = "clipped"
               /\ bt'.cash_balance = FZero
               /\ FLt(bt.asset_state[a].tokens, bt'.asset_state[a].tokens)
       /\ (buy /\ ~FLt(FZero, bt.cash_balance))
            => /\ bt'.cash_balance = bt.cash_balance
               /\ bt'.asset_state[a].tokens = bt.asset_state[a].tokens
               /\ bt'.asset_state[a].cash = bt.asset_state[a].cash
               /\ bt'.asset_state[a].price = parse_f64(row.last_price)
C29_CapitalConstraint == []C29_NonNegative /\ [][C29_Step]_vars

\* C31: side classification, identical in both decoders: makerAssetId = 0
\* gives buy with asset = takerAssetId, usdc_raw = makerAmount, token_raw =
\* takerAmount; otherwise takerAssetId = 0 gives sell with asset =
\* makerAssetId, usdc_raw = takerAmount, token_raw = makerAmount; both asset
\* ids non-zero is a mint: no LiveTrade and no alert. price is usdc_raw /
\* token_raw to six decimals (within half a millionth), 0 when token_raw = 0;
\* maker 5_000_000 and taker 10_000_000 give price 0.500000.
Decoded == dec[1]
ExpectedSide(log, t) ==
  IF log.makerAssetId = 0
  THEN /\ t # None
       /\ t[1].side = "buy"
       /\ ParseDec(t[1].asset_id) = log.takerAssetId
       /\ t[1].usdc_amount = log.makerAmountFilled
       /\ t[1].amount = log.takerAmountFilled
  ELSE IF log.takerAssetId = 0
  THEN /\ t # None
       /\ t[1].side = "sell"
       /\ ParseDec(t[1].asset_id) = log.makerAssetId
       /\ t[1].usdc_amount = log.takerAmountFilled
       /\ t[1].amount = log.makerAmountFilled
  ELSE t = None
ExpectedPrice(t) ==
  LET u == t.usdc_amount
      k == t.amount
      p == t.price
  IN /\ k = RawZero => p = RawZero
     /\ (k # RawZero /\ u.whole = 0 /\ k.whole = 0) =>
          /\ p.whole <= 40
          /\ 2 * Abs(RawInt(p) * k.frac - u.frac * 1000000) <= k.frac
     /\ (u = [whole |-> 5, frac |-> 0] /\ k = [whole |-> 10, frac |-> 0]) =>
          p = [whole |-> 0, frac |-> 500000]
     /\ (u = [whole |-> 50000, frac |-> 0] /\ k = [whole |-> 25000, frac |-> 0]) =>
          p = [whole |-> 2, frac |-> 0]
C31_SideClassification ==
  dec # <<>> =>
    /\ Decoded.ws = Decoded.hook
    /\ Decoded.ws_alert = Decoded.hook_alert
    /\ ExpectedSide(Decoded.log, Decoded.ws)
    /\ ExpectedSide(Decoded.log, Decoded.hook)
    /\ Decoded.ws = None => Decoded.ws_alert = None /\ Decoded.hook_alert = None
    /\ Decoded.ws # None => ExpectedPrice(Decoded.ws[1]) /\ ExpectedPrice(Decoded.hook[1])

\* A mint above the whale threshold has reached both decoders, and so has a
\* sell whose price is not a whole number of millionths.
C31_Witness ==
  /\ dec # <<>>
  /\ \/ /\ Decoded.log.makerAssetId = 7 /\ Decoded.log.takerAssetId = 90
        /\ Decoded.log.makerAmountFilled = [whole |-> 25000, frac |-> 0]
        /\ Decoded.ws = None
     \/ /\ Decoded.log.takerAssetId = 0 /\ Decoded.log.makerAssetId = 90
        /\ Decoded.log.takerAmountFilled = [whole |-> 0, frac |-> 40]
        /\ Decoded.log.makerAmountFilled = [whole |-> 0, frac |-> 7]
        /\ Decoded.hook # None
        /\ Decoded.hook[1].price = [whole |-> 5, frac |-> 714286]

\* C32: fail-open liveness: a webhook event whose transaction_information or
\* block_timestamp is missing, not a string, or unparseable is treated as
\* live and is broadcast under the same rules as a fresh event: once handled,
\* a fill is on the trade channel when the request loaded ws_active = false
\* (and its whale alert on the alert channel), and a resolution's alert is on
\* the alert channel.
Unreadable(ts) == ~ts.ok
C32_FailOpenBroadcast ==
  \A r \in Reqs : \A k \in 1..Len(reqs[r].events) :
    LET ev == reqs[r].events[k] IN
    (k < reqs[r].i /\ Unreadable(ev.ts) /\ ev.wellformed) =>
      /\ \A h \in Handled(r, k) : h.live
      /\ (reqs[r].event_name = "OrderFilled" /\ ~reqs[r].ws_active
            /\ Classify(OnChainFill(ev.fill)) # None) =>
           /\ TradesOfEvent(r, k) # {}
           /\ IsWhaleFill(ev.fill) => AlertsOfEvent(r, k) # {}
      /\ reqs[r].event_name = "ConditionResolution" => AlertsOfEvent(r, k) # {}

\* C33: hot-markets merge: the fetched rows whose tokens belong to the same
\* question end up in one response row: no two response rows share a
\* question, every question has its row when the response is not cut at
\* `limit`, and the row of a question has as volume the sum of the volumes
\* of the question's fetched rows and as token_id the token of a fetched row
\* of the question with the highest volume.
HotSeen == hot[1]
RowsOf(q) == {k \in 1..Len(HotSeen.rows) : QuestionOfRow(HotSeen.rows[k]) = q}
RECURSIVE VolumeOf(_)
VolumeOf(K) ==
  IF K = {} THEN 0
  ELSE LET k == CHOOSE x \in K : TRUE IN HotSeen.rows[k].volume + VolumeOf(K \ {k})
FetchedQuestions == {QuestionOfRow(HotSeen.rows[k]) : k \in 1..Len(HotSeen.rows)}
LastSort == unwrap_or(lb.last.params.sort, <<"realized_pnl">>)
LastOrder == unwrap_or(lb.last.params.order, <<"desc">>)
LastValid ==
  /\ LastSort \in {<<"realized_pnl">>, <<"total_volume">>, <<"trade_count">>}
  /\ LastOrder \in {<<"asc">>, <<"desc">>}
C34_AllowListed ==
  /\ (lb.last.n > 0 /\ ~LastValid) =>
       /\ lb.last.status = 400
       /\ ~lb.last.queried /\ ~lb.last.from_cache /\ ~lb.last.stored
  /\ \A e \in lb.cache :
       /\ e.sort \in {<<"realized_pnl">>, <<"total_volume">>, <<"trade_count">>}
       /\ e.order \in {<<"asc">>, <<"desc">>}
  /\ (lb.last.n > 0 /\ lb.last.from_cache) => lb.last.at < lb.last.expires
  /\ \A e \in lb.cache : e.expires <= mono + 30

\* ---------------------------------------------------------------- C35
\* The entries the asset's list holds once the trade is appended and the
\* entries 300 s old or older are evicted, stated on the list before the call.
InWindow(a, idx) ==
  SelectSeq(Append(det.recent_trades[a],
                   [trader |-> trades[idx].trader, ts |-> mono,
                    side |-> trades[idx].side, usdc |-> trades[idx].usdc_amount]),
            LAMBDA e : mono - e.ts < 300)

RECURSIVE SumUsdc(_)
SumUsdc(s) == IF s = <<>> THEN 0 ELSE s[1].usdc + SumUsdc(Tail(s))

SidesOf(s, side) == Cardinality({i \in 1..Len(s) : s[i].side = side})

AlertMatches(al, w) ==
  /\ al.traders = {w[i].trader : i \in 1..Len(w)}
  /\ al.trader_count = Cardinality({w[i].trader : i \in 1..Len(w)})
  /\ al.total_usdc = SumUsdc(w)
  /\ al.window_seconds = 300
  /\ al.side = IF SidesOf(w, "buy") >= Len(w) - SidesOf(w, "buy") THEN "BUY" ELSE "SELL"

\* C35: a ConvergenceAlert returned by record_trade has trader_count equal
\* to the number of distinct traders among the asset's in-window entries,
\* traders equal to that set, total_usdc equal to the sum of usdc over the
\* in-window entries, window_seconds = 300, and side BUY when the buy
\* entries are at least as many as the sell entries, otherwise SELL.
C35_AlertContents ==
  [][(Len(Sg'.seen) = Len(Sg.seen) + 1 /\ Sg'.seen[Len(Sg'.seen)].alert # None) =>
       LET rec == Sg'.seen[Len(Sg'.seen)]
       IN /\ AlertMatches(rec.alert[1], InWindow(rec.alert[1].asset_id, rec.idx))
          /\ det'.recent_trades[rec.alert[1].asset_id]
               = InWindow(rec.alert[1].asset_id, rec.idx)]_vars

\* Two sells by one member then a buy by the other: an alert for SELL over
\* the three entries; and an alert that leaves out an evicted entry.
C35_Witness ==
  \E k \in AlertsReturned :
    /\ Sg.seen[k].alert[1].side = "SELL"
    /\ Sg.seen[k].alert[1].trader_count = 2
    /\ Sg.seen[k].alert[1].total_usdc = 5000

C35_WitnessEvicted ==
  \E k \in AlertsReturned :
    /\ Sg.seen[k].idx = 3
    /\ Sg.seen[k].alert[1].at = 300
    /\ Sg.seen[k].alert[1].total_usdc < trades[1].usdc_amount + trades[2].usdc_amount + trades[3].usdc_amount

\* ---------------------------------------------------------------- C36
\* The catalog's tokens of the market with condition id cid, by outcome_index.
MarketTokens(cid) ==
  SortByIndex({e \in CatalogEntries :
                 strip_prefix_0x(e.condition_id[1]) = strip_prefix_0x(cid)})

CacheEnriched ==
  {k \in 1..Len(alerts) : /\ alerts[k].kind = "MarketResolution"
                          /\ alerts[k].gamma = None
                          /\ alerts[k].question # None}

\* C36: a MarketResolution alert enriched from the cache, whichever subset
\* of the market's tokens is cached, lists the market's outcome labels in
\* outcome_index order, carries the market's index-0 token as token_id, and
\* names as winning_outcome the label of the first outcome index whose
\* payout numerator is positive.
C36_EnrichedFromCache ==
  \A k \in CacheEnriched :
    LET m == MarketTokens(alerts[k].condition_id)
        i == FirstPositive(alerts[k].payout_numerators)
    IN /\ alerts[k].outcomes = [j \in 1..Len(m) |-> m[j].outcome]
       /\ alerts[k].token_id = Some(m[1].gamma_token_id)
       /\ alerts[k].winning_outcome = IF i >= 1 /\ i <= Len(m) THEN Some(m[i].outcome) ELSE None

\* ---------------------------------------------------------------- C37
TableRows == {e.row : e \in resolved_prices}

\* C37: after every warm cycle whose resolution and asset queries succeeded,
\* the resolved_prices table holds exactly the rows computed in that cycle,
\* whether rows were computed, none were computed or the insert failed; no
\* row of an earlier cycle survives.
C37_TableIsThisCycle ==
  (warm.pc = "sleep" /\ warm.queried) =>
    /\ TableRows = warm.rows
    /\ \A e \in resolved_prices : e.cycle = warm.cycle

\* ---------------------------------------------------------------- C38
MinTs(s) == CHOOSE t \in {s[i].ts : i \in 1..Len(s)} : \A i \in 1..Len(s) : t <= s[i].ts

\* The asset's entries younger than 300 s when the sweep runs.
YoungEntries(a) == SelectSeq(det.recent_trades[a], LAMBDA e : mono - e.ts < 300)

\* Assets the sweep's cap removed: tracked before, with a young entry, and
\* not tracked afterwards.
CapRemoved == {a \in det.tracked : YoungEntries(a) # <<>> /\ a \notin det'.tracked}

C38_Step ==
  SweepTick =>
    /\ \A a \in det'.tracked :
         /\ det'.recent_trades[a] # <<>>
         /\ \A i \in 1..Len(det'.recent_trades[a]) : mono - det'.recent_trades[a][i].ts <= 300
    /\ \A a \in AssetIds :
         det'.last_alert[a] # None => mono - det'.last_alert[a][1] <= 120
    /\ Cardinality(det'.tracked) <= MAX_ASSETS
    /\ \A a \in CapRemoved, b \in det'.tracked :
         MinTs(YoungEntries(a)) <= MinTs(det'.recent_trades[b])
    /\ CapRemoved # {} => Cardinality(det'.tracked) = MAX_ASSETS

\* C38: after every sweep no tracked asset has an empty list or an entry
\* older than 300 s, no last_alert entry is older than 120 s, at most
\* max_assets assets are tracked, and the assets the cap removed are those
\* whose oldest entry is oldest.
C38_AfterSweep == [][C38_Step]_vars

\* At 60 s, with nothing old enough to be evicted, the asset traded first is
\* gone and the asset traded later is the one still tracked.
C38_Witness ==
  /\ mono = 60
  /\ det.tracked = {TokenY}
  /\ det.recent_trades[TokenX] = <<>>
  /\ \E k \in 1..Len(Sg.seen) :
       Sg.seen[k].outcome = "sent" /\ trades[Sg.seen[k].idx].asset_id = TokenX

\* A sweep at 300 s that evicted every entry of an asset and its last_alert.
C38_WitnessEvicted ==
  /\ mono = 300
  /\ det.tracked = {}
  /\ \A a \in AssetIds : det.last_alert[a] = None
  /\ AlertsReturned # {}

\* ---------------------------------------------------------------- C39
\* The webhook handled fill f as live and, having loaded ws_active = TRUE,
\* left its LiveTrade to the subscriber.
Suppressed(f) ==
  \E h \in handled :
    /\ h.live
    /\ reqs[h.req].ws_active
    /\ reqs[h.req].event_name = "OrderFilled"
    /\ IsFill(reqs[h.req].events[h.idx])
    /\ reqs[h.req].events[h.idx].fill = f

\* C39: no live fill is lost in the handoff: whenever the webhook suppresses
\* a fill because the ws_active value it loaded is true, the subscriber
\* sends that fill's LiveTrade.
C39_NoFillLost ==
  \A f \in Fills : Suppressed(f) ~> (SentBy("ws", f) # {})

\* ---------------------------------------------------------------- C40
\* The verify in slot v gets its answer in this step.
Answered(v) == verifies[v].pc # "done" /\ verifies'[v].pc = "done"

PairOf(b) == [nonce |-> b.nonce, issued_at |-> b.issued_at]

\* The pair the address's most recent nonce request returned, if no verify
\* has succeeded since.
Outstanding(addr) ==
  LET is == IssuedBy(users, addr) IN
  IF is # <<>> /\ users[addr][1].used = 0 THEN Some(is[Len(is)]) ELSE None

\* The body's pair was returned by some nonce request of its address / by
\* one before the most recent.
Disclosed(b) ==
  LET is == IssuedBy(users, to_lowercase(b.address)) IN
  \E i \in 1..Len(is) : is[i].nonce = b.nonce

EarlierPair(b) ==
  LET is == IssuedBy(users, to_lowercase(b.address)) IN
  \E i \in 1..(Len(is) - 1) : is[i] = PairOf(b)

WellSigned(b) == b.signature = Sign(to_lowercase(b.address), b.nonce, b.issued_at)

\* C40 (as stated): a verify that presents, correctly signed, the pair of an
\* earlier nonce request of its address fails with NonceMismatch.
C40_EarlierPairNonceMismatch ==
  [][\A v \in Verifies :
       (Answered(v) /\ EarlierPair(verifies[v].body) /\ WellSigned(verifies[v].body)) =>
         verifies'[v].result = "NonceMismatch"]_vars

\* C40 (amended): a verify with a nonce some nonce request returned succeeds
\* only if its pair is the one the most recent nonce request of the address
\* returned and no verify has succeeded since; one that presents the pair of
\* an earlier nonce request issues no JWT: it fails with NonceMismatch when
\* it passes the signature and age check, and with Expired or
\* InvalidSignature when it does not.
C40_OneOutstandingNonce ==
  [][\A v \in Verifies :
       LET b == verifies[v].body IN
       /\ (Answered(v) /\ verifies'[v].result = "Ok" /\ Disclosed(b)) =>
            Outstanding(to_lowercase(b.address)) = Some(PairOf(b))
       /\ (Answered(v) /\ EarlierPair(b)) =>
            /\ verifies'[v].result \in {"NonceMismatch", "Expired", "InvalidSignature"}
            /\ verifies[v].pc = "rotate" <=> verifies'[v].result = "NonceMismatch"]_vars

\* After two nonce requests of one address, a verify with the first pair was
\* answered NonceMismatch and a verify with the second pair got its JWT.
C40_Witness ==
  \E v, w \in Verifies :
    LET is == IssuedBy(users, to_lowercase(verifies[v].body.address)) IN
    /\ Done(v) /\ Done(w) /\ Len(is) = 2
    /\ to_lowercase(verifies[v].body.address) = to_lowercase(verifies[w].body.address)
    /\ PairOf(verifies[v].body) = is[1] /\ verifies[v].result = "NonceMismatch"
    /\ PairOf(verifies[w].body) = is[2] /\ verifies[w].result = "Ok"

====
